---------------------------- MODULE Spec2Model ----------------------------
(***************************************************************************)
(* A model of pitot, an aviation information receiver: the four-stage     *)
(* tick loop (src/pitot/mod.rs), the sensor channels (src/sensor/sdr),     *)
(* the ownship, clock and traffic processors (src/processor), the GDL 90   *)
(* protocol (src/protocol/gdl90.rs) and the UDP transport                  *)
(* (src/transport/udp.rs).                                                 *)
(*                                                                         *)
(* Time is the monotonic clock of the tick's handle, in milliseconds.      *)
(* Option<T> is a sequence: None is <<>> and Some(x) is <<x>>.             *)
(***************************************************************************)
EXTENDS Integers, Sequences, FiniteSets, TLC

VARIABLES
    pc,                 \* the stage Pitot::run executes next
    ticks,              \* iterations of the loop of Pitot::run started so far
    clock,              \* handle.clock of the current tick (ms, monotonic)
    utc,                \* handle.utc of the current tick (s since the epoch)
    freq,               \* Pitot.frequency
    transports,         \* Pitot.transports: the transports linked
    sensors,            \* Pitot.sensors: the sensors linked
    arg,                \* the argument of the function call last made
    ret,                \* what that call returned
    ran,                \* history: the run_every! bodies run in the current tick
    sensor_queue,       \* Pitot.sensor_queue
    report_queue,       \* Pitot.report_queue
    payload_queue,      \* Pitot.payload_queue
    situation,          \* Traffic.situation
    cleanup_counter,    \* Traffic.cleanup_counter
    report_counter,     \* Traffic.report_counter
    ownship_valid,      \* GDL90.ownship_valid
    heartbeat_counter,  \* GDL90.heartbeat_counter
    ownship_counter,    \* GDL90.ownship_counter
    pres_alt_valid,     \* GDL90.pres_alt_valid
    clients,            \* UDP.clients
    queue,              \* UDP.queue
    inactive_buffer,    \* UDP.inactive_buffer
    ping_counter,       \* UDP.ping_counter
    ownship,            \* the Ownship processor: its own fields
    settime,            \* the time Clock::run last gave the system clock
    chan,               \* the channel of each sensor: values sent, not yet received
    stepping,           \* run_sensors: the index of the sensor whose run executes
    io_sent,            \* history: what each I/O thread has sent so far
    drained,            \* history: what each sensor's run has pushed so far
    twin,               \* a second run of the pipeline under another wall clock
    nfed,               \* history: number of sensor items fed so far
    pushed,             \* history: what each stage pushed in the current tick
    seen,               \* history: what each stage was handed in the current tick
    tlog,               \* history: the loop of Traffic::run in the current tick
    comm,               \* UbloxGNSSProvider.comm: the buffer of the UBXCommunicator
    serial,             \* the serial port of the GNSS receiver, as the reads find it
    sent                \* history: the datagrams UDP::run sent in the current tick

handleVars  == <<clock, utc>>
queueVars   == <<sensor_queue, report_queue, payload_queue>>
trafficVars == <<situation, cleanup_counter, report_counter>>
gdl90Vars   == <<ownship_valid, heartbeat_counter, ownship_counter, pres_alt_valid>>
udpVars     == <<clients, queue, inactive_buffer, ping_counter>>
ownshipVars == <<ownship, settime>>
chanVars    == <<chan, stepping, io_sent, drained>>
gnssVars    == <<comm, serial>>
vars == <<pc, ticks, clock, utc, freq, transports, sensors, arg, ret, gnssVars, ran,
          sensor_queue, report_queue, payload_queue,
          situation, cleanup_counter, report_counter,
          ownship_valid, heartbeat_counter, ownship_counter, pres_alt_valid,
          clients, queue, inactive_buffer, ping_counter,
          ownship, settime, chan, stepping, io_sent, drained, twin,
          nfed, pushed, seen, tlog, sent>>

----------------------------------------------------------------------------
(* Option<T> *)

None == <<>>
Some(x) == <<x>>
IsSome(o) == o # <<>>
Unwrap(o) == o[1]

(* let x = v; F(x): the value v is computed once, then handed to F *)
Valued(v, F(_)) == CHOOSE r \in {F(x) : x \in {v}} : TRUE

(* Duration::as_secs: whole seconds of a duration given in ms *)
AsSecs(d) == d \div 1000

Pow2(n) == 2 ^ n

RECURSIVE Log2Floor(_)
Log2Floor(n) == IF n < 2 THEN 0 ELSE 1 + Log2Floor(n \div 2)

(***************************************************************************)
(* An f32 constant is <<m, e>>, standing for m / 2^e.  0.1_f32 is          *)
(* 13421773 / 2^27.  F32Quot(n, h) is ((n as f32) / h) as u32: the         *)
(* quotient is rounded to the nearest f32 (24-bit significand) and then    *)
(* truncated.  The rounding reaches the next integer exactly when the      *)
(* quotient is within half an ulp of it.                                   *)
(***************************************************************************)
F32_TENTH == <<13421773, 27>>
F32_ONE == <<1, 0>>

F32Quot(n, h) ==
    LET num == n * Pow2(h[2])
        den == h[1]
        q == num \div den
        rem == num % den
        k == Log2Floor(q)
    IN IF q >= 1 /\ rem > 0 /\ (den - rem) <= den \div Pow2(24 - k)
       THEN q + 1
       ELSE q

(***************************************************************************)
(* run_every!: the counter after the increment, and whether the body runs  *)
(***************************************************************************)
(* a run_every! that tests the counter before it increments it *)
RunEveryFiresLate(hz, counter, f) == counter >= F32Quot(f, hz)

RunEveryFires(hz, counter, f) == counter + 1 >= F32Quot(f, hz)
RunEveryCounter(hz, counter, f) ==
    IF RunEveryFires(hz, counter, f) THEN 0 ELSE counter + 1

(* the body named body, if this run_every! runs it *)
RunEveryRan(body, hz, counter, f) ==
    IF RunEveryFires(hz, counter, f) THEN {body} ELSE {}

----------------------------------------------------------------------------
(* src/processor/traffic.rs *)

CLEANUP_FREQ == F32_TENTH
REPORT_FREQ == F32_ONE
MAX_STALE_SECS == 60
ADS_B_LOCKOUT_INTERVAL == 2
FRESHNESS_DELAY == 6

AddressType == {"ADSBICAO", "ADSBOther", "ADSRICAO", "ADSROther",
                "TISBICAO", "TISBOther", "Unknown"}

IsADSB(typ) == typ = "ADSBICAO" \/ typ = "ADSBOther"

(* String is a sequence of one-character strings *)
LIMITED_ALPHABET ==
    <<"A", "B", "C", "D", "E", "F", "G", "H", "J", "K", "L", "M",
      "N", "P", "Q", "R", "S", "T", "U", "V", "W", "X", "Y", "Z">>

DigitChar(d) == <<"0", "1", "2", "3", "4", "5", "6", "7", "8", "9">>[d + 1]

(* an n_letters without the first rem -= 1 *)
n_letters_from0(rem, reg) ==
    IF rem = 0 THEN reg
    ELSE LET reg1 == Append(reg, LIMITED_ALPHABET[((rem \div 25) % 24) + 1])
             r2 == rem % 25
         IN IF r2 = 0 THEN reg1
            ELSE Append(reg1, LIMITED_ALPHABET[(r2 - 1) + 1])

n_letters(rem, reg) ==
    IF rem = 0 THEN reg
    ELSE LET r1 == rem - 1
             reg1 == Append(reg, LIMITED_ALPHABET[(r1 \div 25) + 1])
             r2 == r1 % 25
         IN IF r2 = 0 THEN reg1
            ELSE Append(reg1, LIMITED_ALPHABET[(r2 - 1) + 1])

(* icao_to_tail: Option<String>; 0xA00001 = 10485761, 0xAFFFFF = 11534335, *)
(* 0xADF7C7 = 11401159                                                      *)
icao_to_tail(icao) ==
    IF icao < 10485761 \/ icao > 11534335 THEN None
    ELSE IF icao > 11401159 THEN Some(<<"U", "S", "-", "M", "I", "L">>)
    ELSE LET o0 == icao - 10485761
             res1 == <<"N", DigitChar(o0 \div 101711 + 1)>>
             o1 == o0 % 101711
             res2 == Append(res1, DigitChar((o1 - 601) \div 10111))
             o2 == (o1 - 601) % 10111
             res3 == Append(res2, DigitChar((o2 - 601) \div 951))
             o3 == (o2 - 601) % 951
             res4 == Append(res3, DigitChar((o3 - 601) \div 35))
             o4 == (o3 - 601) % 35
         IN IF o0 > 915399 THEN None
            ELSE IF o1 <= 600 THEN Some(n_letters(o1, res1))
            ELSE IF o2 <= 600 THEN Some(n_letters(o2, res2))
            ELSE IF o3 <= 600 THEN Some(n_letters(o3, res3))
            ELSE IF o4 <= 24
                 THEN Some(IF o4 # 0
                           THEN Append(res4, LIMITED_ALPHABET[(o4 - 1) + 1])
                           ELSE res4)
            ELSE Some(Append(res4, DigitChar(o4 - 25)))

(* Target::new *)
TargetNew(addr, clk, source, callsign) ==
    [addr |-> addr, altitude |-> None, gnss_delta |-> None, heading |-> None,
     speed |-> None, vs |-> None, squawk |-> None, callsign |-> callsign,
     category |-> None, lat_lon |-> None, nic |-> None, nacp |-> None,
     on_ground |-> None, last_seen |-> clk, source |-> source]

(* one arm of Target::is_fresh: a stamped field, its stamp last *)
FieldIsFresh(field, now) ==
    IsSome(field)
    /\ AsSecs(now - Unwrap(field)[Len(Unwrap(field))]) <= FRESHNESS_DELAY

(* a freshness test on last_seen instead of the stamps of the fields *)
is_fresh_seen(v, now) == AsSecs(now - v.last_seen) <= FRESHNESS_DELAY

(* Target::is_fresh *)
is_fresh(v, now) ==
    \/ FieldIsFresh(v.altitude, now)
    \/ FieldIsFresh(v.heading, now)
    \/ FieldIsFresh(v.speed, now)
    \/ FieldIsFresh(v.lat_lon, now)

(* a lockout test with the two address types exchanged *)
LockedOutSwapped(trfc, t, clk) ==
    /\ IsADSB(t.addr[2])
    /\ ~IsADSB(trfc.addr[2])
    /\ AsSecs(clk - trfc.last_seen) < ADS_B_LOCKOUT_INTERVAL

(* the ADS-B lockout test of Traffic::run *)
LockedOut(trfc, t, clk) ==
    /\ IsADSB(trfc.addr[2])
    /\ ~IsADSB(t.addr[2])
    /\ AsSecs(clk - trfc.last_seen) < ADS_B_LOCKOUT_INTERVAL

(* the copy of an accepted report into the target, stamped with stamp *)
MergeStamped(trfc, t, stamp) ==
    [addr |-> t.addr,
     last_seen |-> stamp,
     source |-> t.source,
     altitude |-> IF IsSome(t.altitude)
                  THEN Some(<<Unwrap(t.altitude)[1], Unwrap(t.altitude)[2], stamp>>)
                  ELSE trfc.altitude,
     gnss_delta |-> IF IsSome(t.gnss_delta) THEN t.gnss_delta ELSE trfc.gnss_delta,
     heading |-> IF IsSome(t.heading)
                 THEN Some(<<Unwrap(t.heading)[1], Unwrap(t.heading)[2], stamp>>)
                 ELSE trfc.heading,
     speed |-> IF IsSome(t.speed)
               THEN Some(<<Unwrap(t.speed)[1], Unwrap(t.speed)[2], stamp>>)
               ELSE trfc.speed,
     vs |-> IF IsSome(t.vs) THEN Some(<<Unwrap(t.vs), stamp>>) ELSE trfc.vs,
     squawk |-> IF IsSome(t.squawk) THEN t.squawk ELSE trfc.squawk,
     callsign |-> IF IsSome(t.callsign) THEN t.callsign ELSE trfc.callsign,
     category |-> IF IsSome(t.category) THEN t.category ELSE trfc.category,
     lat_lon |-> IF IsSome(t.lat_lon)
                 THEN Some(<<Unwrap(t.lat_lon), stamp>>)
                 ELSE trfc.lat_lon,
     nic |-> IF IsSome(t.nic) THEN t.nic ELSE trfc.nic,
     nacp |-> IF IsSome(t.nacp) THEN t.nacp ELSE trfc.nacp,
     on_ground |-> IF IsSome(t.on_ground) THEN t.on_ground ELSE trfc.on_ground]

(* a merge that copies the report over a fresh target, so that a field   *)
(* the report lacks is lost                                               *)
MergeReplacing(trfc, t, clk) ==
    MergeStamped(TargetNew(t.addr, clk, t.source, None), t, clk)

(* a merge that stamps with the wall clock of the tick *)
MergeWallClock(trfc, t, clk) == MergeStamped(trfc, t, 1000 * utc)

(* a merge that stamps the fields but leaves last_seen as it was *)
MergeUnseen(trfc, t, clk) ==
    [MergeStamped(trfc, t, clk) EXCEPT !.last_seen = trfc.last_seen]

(* the accepted report is stamped with the clock of the tick *)
Merge(trfc, t, clk) == MergeStamped(trfc, t, clk)

(* situation.entry(icao).or_insert(Target::new(..)) *)
EntryOrInsert(sit, t, clk) ==
    IF t.addr[1] \in DOMAIN sit THEN sit
    ELSE sit @@ (t.addr[1] :> TargetNew(t.addr, clk, t.source,
                                        icao_to_tail(t.addr[1])))

(* a loop body whose skip still stamps the target as seen *)
TrafficUpdateTouching(sit, t, clk) ==
    LET sit1 == EntryOrInsert(sit, t, clk)
        trfc == sit1[t.addr[1]]
    IN IF LockedOut(trfc, t, clk)
       THEN [sit1 EXCEPT ![t.addr[1]].last_seen = clk]
       ELSE [sit1 EXCEPT ![t.addr[1]] = Merge(trfc, t, clk)]

(* the body of the loop of Traffic::run for one SensorData::Traffic *)
TrafficUpdate(sit, t, clk) ==
    LET sit1 == EntryOrInsert(sit, t, clk)
        trfc == sit1[t.addr[1]]
    IN IF LockedOut(trfc, t, clk) THEN sit1
       ELSE [sit1 EXCEPT ![t.addr[1]] = Merge(trfc, t, clk)]

(* whether the loop body skips the report (the continue) *)
TrafficSkips(sit, t, clk) ==
    LockedOut(EntryOrInsert(sit, t, clk)[t.addr[1]], t, clk)

(* the loop of Traffic::run over the sensor items *)
RECURSIVE TrafficLoop(_, _, _)
TrafficLoop(sit, items, clk) ==
    IF items = <<>> THEN sit
    ELSE TrafficLoop(IF Head(items).kind = "Traffic"
                     THEN TrafficUpdate(sit, Head(items).t, clk)
                     ELSE sit,
                     Tail(items), clk)

(* history of the loop: for each SensorData::Traffic, the target the     *)
(* lockout test read (found) and the target the loop body left (after)   *)
RECURSIVE TrafficLog(_, _, _)
TrafficLog(sit, items, clk) ==
    IF items = <<>> THEN <<>>
    ELSE IF Head(items).kind # "Traffic"
         THEN TrafficLog(sit, Tail(items), clk)
    ELSE LET t == Head(items).t
             sit1 == TrafficUpdate(sit, t, clk)
         IN <<[t |-> t,
               known |-> t.addr[1] \in DOMAIN sit,
               found |-> EntryOrInsert(sit, t, clk)[t.addr[1]],
               after |-> sit1[t.addr[1]],
               skipped |-> TrafficSkips(sit, t, clk)]>>
            \o TrafficLog(sit1, Tail(items), clk)

(* a retain that also keeps the targets that are exactly MAX_STALE_SECS old *)
RetainedLate(sit, clk) ==
    {k \in DOMAIN sit : AsSecs(clk - sit[k].last_seen) <= MAX_STALE_SECS}

(* a retain that rounds the age to the nearest second *)
RetainedRounded(sit, clk) ==
    {k \in DOMAIN sit :
        AsSecs(clk - sit[k].last_seen + 500) < MAX_STALE_SECS}

(* the retain of the cleanup pass *)
Retained(sit, clk) ==
    {k \in DOMAIN sit : AsSecs(clk - sit[k].last_seen) < MAX_STALE_SECS}

Cleanup(sit, clk) == [k \in Retained(sit, clk) |-> sit[k]]

(* the emit pass: order is the iteration order of situation.values() *)
RECURSIVE Emit(_, _, _)
Emit(sit, order, clk) ==
    IF order = <<>> THEN <<>>
    ELSE (IF is_fresh(sit[Head(order)], clk)
          THEN <<[kind |-> "Traffic", target |-> sit[Head(order)]]>>
          ELSE <<>>)
         \o Emit(sit, Tail(order), clk)

(* the sequences that enumerate the set S once each *)
Orders(S) ==
    {o \in [1..Cardinality(S) -> S] : \A i, j \in DOMAIN o : i # j => o[i] # o[j]}

(* the map of Traffic::run after the loop and the cleanup pass *)
TrafficSituation(sit, cc, f, clk, items) ==
    IF RunEveryFires(CLEANUP_FREQ, cc, f)
    THEN Cleanup(TrafficLoop(sit, items, clk), clk)
    ELSE TrafficLoop(sit, items, clk)

(* the reports Traffic::run pushes *)
TrafficReports(sit, cc, rc, f, clk, items, order) ==
    IF RunEveryFires(REPORT_FREQ, rc, f)
    THEN Emit(TrafficSituation(sit, cc, f, clk, items), order, clk)
    ELSE <<>>

----------------------------------------------------------------------------
(* src/protocol/gdl90.rs *)

(* an f32 value is <<m, e>>, standing for m / 2^e; LON_LAT_RESOLUTION is   *)
(* 180 / 2^23 and TRACK_RESOLUTION is 360 / 256 = 45 / 2^5, both exact      *)
TRACK_RESOLUTION == <<45, 5>>
HEARTBEAT_FREQ == 1
OWNSHIP_FREQ == 2
GDL90_MAX_STALE_SECS == 6

CRC16_TABLE ==
    <<
      0, 4129, 8258, 12387, 16516, 20645, 24774, 28903,
      33032, 37161, 41290, 45419, 49548, 53677, 57806, 61935,
      4657, 528, 12915, 8786, 21173, 17044, 29431, 25302,
      37689, 33560, 45947, 41818, 54205, 50076, 62463, 58334,
      9314, 13379, 1056, 5121, 25830, 29895, 17572, 21637,
      42346, 46411, 34088, 38153, 58862, 62927, 50604, 54669,
      13907, 9842, 5649, 1584, 30423, 26358, 22165, 18100,
      46939, 42874, 38681, 34616, 63455, 59390, 55197, 51132,
      18628, 22757, 26758, 30887, 2112, 6241, 10242, 14371,
      51660, 55789, 59790, 63919, 35144, 39273, 43274, 47403,
      23285, 19156, 31415, 27286, 6769, 2640, 14899, 10770,
      56317, 52188, 64447, 60318, 39801, 35672, 47931, 43802,
      27814, 31879, 19684, 23749, 11298, 15363, 3168, 7233,
      60846, 64911, 52716, 56781, 44330, 48395, 36200, 40265,
      32407, 28342, 24277, 20212, 15891, 11826, 7761, 3696,
      65439, 61374, 57309, 53244, 48923, 44858, 40793, 36728,
      37256, 33193, 45514, 41451, 53516, 49453, 61774, 57711,
      4224, 161, 12482, 8419, 20484, 16421, 28742, 24679,
      33721, 37784, 41979, 46042, 49981, 54044, 58239, 62302,
      689, 4752, 8947, 13010, 16949, 21012, 25207, 29270,
      46570, 42443, 38312, 34185, 62830, 58703, 54572, 50445,
      13538, 9411, 5280, 1153, 29798, 25671, 21540, 17413,
      42971, 47098, 34713, 38840, 59231, 63358, 50973, 55100,
      9939, 14066, 1681, 5808, 26199, 30326, 17941, 22068,
      55628, 51565, 63758, 59695, 39368, 35305, 47498, 43435,
      22596, 18533, 30726, 26663, 6336, 2273, 14466, 10403,
      52093, 56156, 60223, 64286, 35833, 39896, 43963, 48026,
      19061, 23124, 27191, 31254, 2801, 6864, 10931, 14994,
      64814, 60687, 56684, 52557, 48554, 44427, 40424, 36297,
      31782, 27655, 23652, 19525, 15522, 11395, 7392, 3265,
      61215, 65342, 53085, 57212, 44955, 49082, 36825, 40952,
      28183, 32310, 20053, 24180, 11923, 16050, 3793, 7920
    >>

(* the printable ASCII characters, code 32 first: c as u8 *)
ASCII ==
    <<
      " ", "!", "QUOTE", "#", "$", "%", "&", "APOSTROPHE", "(", ")", "*", "+",
      ",", "-", ".", "/", "0", "1", "2", "3", "4", "5", "6", "7",
      "8", "9", ":", ";", "<", "=", ">", "?", "@", "A", "B", "C",
      "D", "E", "F", "G", "H", "I", "J", "K", "L", "M", "N", "O",
      "P", "Q", "R", "S", "T", "U", "V", "W", "X", "Y", "Z", "[",
      "BACKSLASH", "]", "^", "_", "BACKTICK", "a", "b", "c", "d", "e", "f", "g",
      "h", "i", "j", "k", "l", "m", "n", "o", "p", "q", "r", "s",
      "t", "u", "v", "w", "x", "y", "z", "{", "|", "}", "~"
    >>

CharCode(c) == 31 + CHOOSE i \in 1..Len(ASCII) : ASCII[i] = c

Abs(x) == IF x < 0 THEN -x ELSE x

(* a ^ b, bit by bit *)
XorBit(a, b, i) == (((a \div Pow2(i)) + (b \div Pow2(i))) % 2) * Pow2(i)

(* a ^ b on four bits, tabulated *)
XorNibble ==
    [a \in 0..15 |-> [b \in 0..15 |->
        XorBit(a, b, 0) + XorBit(a, b, 1) + XorBit(a, b, 2) + XorBit(a, b, 3)]]

Xor8(a, b) ==
    XorNibble[a % 16][b % 16] + 16 * XorNibble[a \div 16][b \div 16]

Xor16(a, b) == Xor8(a % 256, b % 256) + 256 * Xor8(a \div 256, b \div 256)

(***************************************************************************)
(* (num / den) computed in f32 and then .round(): num >= 0, den > 0.  The  *)
(* quotient is rounded to a 24-bit significand, ties to even, and the      *)
(* result is rounded half away from zero.                                   *)
(***************************************************************************)
RoundF32Quot(num, den) ==
    LET q == num \div den
        r == num % den
        fb == 23 - Log2Floor(q)
        s0 == q * Pow2(fb) + (r * Pow2(fb)) \div den
        rr == (r * Pow2(fb)) % den
        s == IF 2 * rr > den THEN s0 + 1
             ELSE IF 2 * rr = den THEN s0 + (s0 % 2)
             ELSE s0
    IN IF q = 0 THEN (IF 2 * num >= den THEN 1 ELSE 0)
       ELSE IF fb <= 0 THEN q
       ELSE (s + Pow2(fb - 1)) \div Pow2(fb)

(* latlon_to_gdl90: wk = (d / LON_LAT_RESOLUTION).round() as i32, then the *)
(* three low bytes of wk as a 32-bit word                                  *)
latlon_wk(d) ==
    LET mag == RoundF32Quot(Abs(d[1]) * Pow2(23 - d[2]), 180)
    IN IF d[1] < 0 THEN -mag ELSE mag

latlon_to_gdl90(d) ==
    LET wk == latlon_wk(d) % 16777216
    IN <<wk \div 65536, (wk \div 256) % 256, wk % 256>>

(* an alt_to_gdl90 that casts without .round() *)
alt_to_gdl90_trunc(a) ==
    IF a < -1000 \/ a > 101350 THEN 4095
    ELSE ((a + 1000) \div 25) % 4096

(* alt_to_gdl90 on an f32 that holds the integer a *)
alt_to_gdl90(a) ==
    IF a < -1000 \/ a > 101350 THEN 4095
    ELSE RoundF32Quot(a + 1000, 25) % 4096

(* f32 as u8 *)
AsU8(v) == IF v > 255 THEN 255 ELSE IF v < 0 THEN 0 ELSE v

RECURSIVE crs_normalize(_)
crs_normalize(c) ==
    IF c > 360 THEN crs_normalize(c - 360)
    ELSE IF c < 0 THEN crs_normalize(c + 360)
    ELSE c

(* crs_to_gdl90 on an f32 that holds the integer c; the courses of the     *)
(* pipeline are below 360, where the quotient is below 256                 *)
crs_to_gdl90(c) == AsU8(F32Quot(crs_normalize(c), TRACK_RESOLUTION))

(* (c / TRACK_RESOLUTION) as u8 when the quotient may be 256: the cast of  *)
(* a float out of the range of u8 saturates in a compiler that defines     *)
(* it; in a compiler that leaves it undefined the conversion to a wider    *)
(* integer is truncated to its low byte, or saturates                       *)
CrsCastOutcomes(q) == IF q \in 0..255 THEN {q} ELSE {q % 256, AsU8(q)}

(* crs_to_gdl90 in any build *)
crs_to_gdl90_builds(c) ==
    CrsCastOutcomes(F32Quot(crs_normalize(c), TRACK_RESOLUTION))

(* one step of the CRC of prepare_payload:                                 *)
(* crc = CRC16_TABLE[crc >> 8] ^ (crc << 8) ^ byte                         *)
CrcStep(crc, byte) ==
    Xor16(CRC16_TABLE[(crc \div 256) + 1], (crc % 256) * 256 + byte)

(* the CRC scan over bytes[lo..hi], started from crc: the first half of   *)
(* the range, then the second half from the value the first half left     *)
RECURSIVE CrcRange(_, _, _, _)
CrcRange(crc, bytes, lo, hi) ==
    IF lo > hi THEN crc
    ELSE IF lo = hi THEN CrcStep(crc, bytes[lo])
    ELSE LET half == CrcRange(crc, bytes, lo, (lo + hi) \div 2)
         IN CASE half \in 0..65535 ->
                   CrcRange(half, bytes, (lo + hi) \div 2 + 1, hi)

Crc16(bytes) == CrcRange(0, bytes, 1, Len(bytes))

(* the byte stuffing of prepare_payload over bytes[lo..hi] *)
RECURSIVE StuffRange(_, _, _)
StuffRange(bytes, lo, hi) ==
    IF lo > hi THEN <<>>
    ELSE IF lo = hi
    THEN (IF bytes[lo] = 126 \/ bytes[lo] = 125
          THEN <<125, Xor8(bytes[lo], 32)>>
          ELSE <<bytes[lo]>>)
    ELSE StuffRange(bytes, lo, (lo + hi) \div 2)
         \o StuffRange(bytes, (lo + hi) \div 2 + 1, hi)

Stuff(bytes) == StuffRange(bytes, 1, Len(bytes))

(* a prepare_payload whose loop stops before the two CRC bytes and then    *)
(* pushes them as they are                                                 *)
prepare_payload_raw_crc(msg) ==
    LET crc == Crc16(msg)
    IN <<126>> \o Stuff(msg) \o <<crc % 256, crc \div 256>> \o <<126>>

(* prepare_payload: msg is the buffer without its two CRC bytes *)
prepare_payload(msg) ==
    LET crc == Crc16(msg)
    IN <<126>> \o Stuff(msg \o <<crc % 256, crc \div 256>>) \o <<126>>

Zeros(n) == [i \in 1..n |-> 0]

Stale(stamp, clk) == ~(AsSecs(clk - stamp) <= GDL90_MAX_STALE_SECS)

AddrTypeCode(typ) ==
    CASE typ \in {"ADSBICAO", "ADSRICAO"} -> 0
      [] typ \in {"ADSBOther", "ADSROther"} -> 1
      [] typ = "TISBICAO" -> 2
      [] OTHER -> 3

AddrTypeTag(typ) ==
    CASE typ \in {"ADSBICAO", "ADSBOther"} -> CharCode("a")
      [] typ \in {"ADSRICAO", "ADSROther"} -> CharCode("r")
      [] typ \in {"TISBICAO", "TISBOther"} -> CharCode("t")
      [] OTHER -> CharCode("x")

(* buf[5..10] and the nic nibble of buf[13] *)
TrafficLatLon(e, clk) ==
    IF IsSome(e.lat_lon) /\ ~Stale(Unwrap(e.lat_lon)[2], clk)
    THEN latlon_to_gdl90(Unwrap(e.lat_lon)[1][1])
         \o latlon_to_gdl90(Unwrap(e.lat_lon)[1][2])
    ELSE Zeros(6)

TrafficNic(e, clk) ==
    IF IsSome(e.lat_lon) /\ ~Stale(Unwrap(e.lat_lon)[2], clk) /\ IsSome(e.nic)
    THEN ((Unwrap(e.nic) * 16) % 256)
    ELSE 0

(* a correction applied in the two combinations that need none *)
CorrectedAltSwapped(e, pav) ==
    LET alt == Unwrap(e.altitude)[1]
        typ == Unwrap(e.altitude)[2]
    IN IF pav /\ typ = "Baro"
       THEN (IF IsSome(e.gnss_delta) THEN alt + Unwrap(e.gnss_delta) ELSE alt)
       ELSE IF ~pav /\ typ = "GNSS"
       THEN (IF IsSome(e.gnss_delta) THEN alt - Unwrap(e.gnss_delta) ELSE alt)
       ELSE alt

(* the altitude the message encodes, corrected by gnss_delta *)
CorrectedAlt(e, pav) ==
    LET alt == Unwrap(e.altitude)[1]
        typ == Unwrap(e.altitude)[2]
    IN IF ~pav /\ typ = "Baro"
       THEN (IF IsSome(e.gnss_delta) THEN alt + Unwrap(e.gnss_delta) ELSE alt)
       ELSE IF pav /\ typ = "GNSS"
       THEN (IF IsSome(e.gnss_delta) THEN alt - Unwrap(e.gnss_delta) ELSE alt)
       ELSE alt

(* the 12-bit altitude field of buf[11] and the high nibble of buf[12] *)
TrafficAlt(e, clk, pav) ==
    IF IsSome(e.altitude)
    THEN (IF ~Stale(Unwrap(e.altitude)[3], clk)
          THEN alt_to_gdl90(CorrectedAlt(e, pav))
          ELSE 0)
    ELSE 4095

(* the low nibble of buf[12] *)
TrafficMisc(e, clk) ==
    (IF IsSome(e.heading) /\ ~Stale(Unwrap(e.heading)[3], clk)
     THEN (IF Unwrap(e.heading)[2] = "True" THEN 1 ELSE 2)
     ELSE 0)
    + (IF e.on_ground # Some(TRUE) THEN 8 ELSE 0)

(* the 12-bit velocity field *)
TrafficSpeed(e, clk) ==
    IF IsSome(e.speed) /\ ~Stale(Unwrap(e.speed)[3], clk)
    THEN Unwrap(e.speed)[1] % 4096
    ELSE 4095

(* (vs as f32 / 64).round() as i16, as 16 bits *)
VsField(vs) ==
    (IF vs < 0 THEN -((-vs + 32) \div 64) ELSE (vs + 32) \div 64) % 65536

(* the low nibble of buf[15] and buf[16] *)
TrafficVs(e, clk) ==
    IF IsSome(e.vs) /\ ~Stale(Unwrap(e.vs)[2], clk)
    THEN <<(VsField(Unwrap(e.vs)[1]) \div 256) % 16,
           VsField(Unwrap(e.vs)[1]) % 256>>
    ELSE <<8, 0>>

TrafficTrack(e) ==
    IF IsSome(e.heading) THEN crs_to_gdl90(Unwrap(e.heading)[1]) ELSE 0

(* format!("{:04}", sq) as bytes *)
SquawkStr(sq) ==
    (IF sq >= 10000 THEN <<48 + (sq \div 10000)>> ELSE <<>>)
    \o <<48 + ((sq \div 1000) % 10), 48 + ((sq \div 100) % 10),
         48 + ((sq \div 10) % 10), 48 + (sq % 10)>>

(* buf[21..26] *)
TrafficCallsign(e) ==
    IF IsSome(e.callsign)
    THEN [i \in 1..6 |-> IF i <= Len(Unwrap(e.callsign))
                         THEN CharCode(Unwrap(e.callsign)[i]) ELSE 0]
    ELSE IF IsSome(e.squawk)
    THEN SubSeq(SquawkStr(Unwrap(e.squawk)), 1, 4) \o <<0, 0>>
    ELSE Zeros(6)

TrafficEmergency(e) ==
    IF IsSome(e.squawk) /\ Unwrap(e.squawk) \in {7700, 7600, 7500}
    THEN 16 ELSE 0

(* the message of generate_traffic before the CRC: buf[0..27] *)
TrafficMessage(e, clk, pav) ==
    <<20, AddrTypeCode(e.addr[2]),
      (e.addr[1] \div 65536) % 256, (e.addr[1] \div 256) % 256, e.addr[1] % 256>>
    \o TrafficLatLon(e, clk)
    \o <<TrafficAlt(e, clk, pav) \div 16,
         (TrafficAlt(e, clk, pav) % 16) * 16 + TrafficMisc(e, clk),
         TrafficNic(e, clk)
           + (IF IsSome(e.nacp) THEN Unwrap(e.nacp) % 16 ELSE 0),
         TrafficSpeed(e, clk) \div 16,
         (TrafficSpeed(e, clk) % 16) * 16 + TrafficVs(e, clk)[1],
         TrafficVs(e, clk)[2],
         TrafficTrack(e),
         IF IsSome(e.category) THEN Unwrap(e.category) ELSE 0,
         IF e.source = "UAT" THEN CharCode("u") ELSE CharCode("e"),
         AddrTypeTag(e.addr[2])>>
    \o TrafficCallsign(e)
    \o <<TrafficEmergency(e)>>

generate_traffic(e, clk, pav) ==
    [queueable |-> FALSE,
     payload |-> prepare_payload(TrafficMessage(e, clk, pav))]

(* generate_heartbeat: utc in seconds, delta the seconds since midnight *)
generate_heartbeat(ov, utcs) ==
    LET delta == utcs % 86400
    IN [queueable |-> FALSE,
        payload |-> prepare_payload(
            <<0, IF ov THEN 145 ELSE 17,
              ((delta \div 65536) % 2) * 128 + 1,
              delta % 256, (delta \div 256) % 256, 0, 0>>)]

PitotName == <<CharCode("P"), CharCode("i"), CharCode("t"), CharCode("o"),
               CharCode("t")>>

generate_foreflight_id ==
    [queueable |-> FALSE,
     payload |-> prepare_payload(
         <<101, 0, 1>> \o [i \in 1..8 |-> 255] \o PitotName \o Zeros(4)
         \o PitotName \o Zeros(13) \o <<1>>)]

(* an uplink marked as an immediate payload *)
generate_uplink_immediate(e) ==
    [queueable |-> FALSE,
     payload |-> prepare_payload(<<7, 255, 255, 255>> \o e.payload)]

(* generate_uplink: e.payload holds 432 bytes *)
generate_uplink(e) ==
    [queueable |-> TRUE,
     payload |-> prepare_payload(<<7, 255, 255, 255>> \o e.payload)]

(* i32 division, towards zero *)
TruncDiv(a, b) == IF a < 0 THEN -((-a) \div b) ELSE a \div b

(* gdl90.rs reads the geometric altitude and the track of the Ownship as   *)
(* e.altitude and e.track; ownship.rs names them hae_altitude (height      *)
(* above the ellipsoid) and true_track                                     *)
generate_ownship_geometric_altitude(e) ==
    LET alt == TruncDiv(e.hae_altitude, 5) % 65536
    IN [queueable |-> FALSE,
        payload |-> prepare_payload(<<11, alt \div 256, alt % 256, 0, 10>>)]

(* generate_ownship: gs is an f32 <<s, e>>, rounded half away from zero by *)
(* e.gs.round() as u16; the track is an f32 holding a whole number         *)
generate_ownship(e) ==
    LET alt == IF IsSome(e.pressure_altitude)
               THEN alt_to_gdl90(Unwrap(e.pressure_altitude))
               ELSE 4095
        gs == IF e.gs[2] <= 0 THEN e.gs[1] * Pow2(-e.gs[2])
              ELSE IF e.gs[2] > 30 THEN 0
              ELSE (e.gs[1] + Pow2(e.gs[2] - 1)) \div Pow2(e.gs[2])
    IN [queueable |-> FALSE,
        payload |-> prepare_payload(
            <<10, 1, 240, 0, 0>>
            \o latlon_to_gdl90(e.lat) \o latlon_to_gdl90(e.lon)
            \o <<alt \div 16, (alt % 16) * 16 + 9,
                 (e.nic % 16) * 16 + (e.nacp % 16),
                 (gs \div 16) % 256, (gs % 16) * 16 + 8, 0,
                 crs_to_gdl90(e.true_track), 1>>
            \o PitotName \o Zeros(4))]

(* the state of GDL90 while run goes over the reports; out is what it pushed *)
GDL90State(oc, ov, pav, out) ==
    [ownship_counter |-> oc, ownship_valid |-> ov, pres_alt_valid |-> pav,
     out |-> out]

(* an arm for Ownship that never throttles *)
GDL90ReportUnthrottled(st, e, f, clk) ==
    CASE e.kind = "Ownship" ->
           GDL90State(0, e.o.valid,
                      st.pres_alt_valid \/ IsSome(e.o.pressure_altitude),
                      st.out \o <<generate_ownship(e.o),
                                  generate_ownship_geometric_altitude(e.o)>>)
      [] e.kind = "Traffic" ->
           [st EXCEPT !.out = Append(@, generate_traffic(e.target, clk,
                                                         st.pres_alt_valid))]
      [] e.kind = "FISB" ->
           [st EXCEPT !.out = Append(@, generate_uplink(e))]
      [] OTHER -> st

(* one arm of the match of GDL90::run *)
GDL90Report(st, e, f, clk) ==
    CASE e.kind = "Ownship" ->
           IF st.ownship_counter >= f \div OWNSHIP_FREQ
           THEN GDL90State(0, e.o.valid,
                           st.pres_alt_valid \/ IsSome(e.o.pressure_altitude),
                           st.out \o <<generate_ownship(e.o),
                                       generate_ownship_geometric_altitude(e.o)>>)
           ELSE st
      [] e.kind = "Traffic" ->
           [st EXCEPT !.out = Append(@, generate_traffic(e.target, clk,
                                                         st.pres_alt_valid))]
      [] e.kind = "FISB" ->
           [st EXCEPT !.out = Append(@, generate_uplink(e))]
      [] OTHER -> st

(* the loop of GDL90::run over the reports *)
RECURSIVE GDL90Loop(_, _, _, _)
GDL90Loop(st, reports, f, clk) ==
    IF reports = <<>> THEN st
    ELSE GDL90Loop(GDL90Report(st, Head(reports), f, clk), Tail(reports), f, clk)

(* a heartbeat paced by the ownship rate *)
HeartbeatFiresAtOwnshipRate(hc, f) == hc + 1 = f \div OWNSHIP_FREQ

(* the heartbeat of GDL90::run: the counter is compared with == *)
HeartbeatFires(hc, f) == hc + 1 = f \div HEARTBEAT_FREQ

GDL90Heartbeat(ov, hc, f, utcs) ==
    IF HeartbeatFires(hc, f)
    THEN <<generate_heartbeat(ov, utcs), generate_foreflight_id>>
    ELSE <<>>

----------------------------------------------------------------------------
(* src/transport/udp.rs *)

UDP_MAX_SIZE == 1472
INACTIVE_BUFFER_SIZE == 8192
PING_FREQ == F32_ONE
DEAD_THRESHOLD == 10
IN_APP_THRESHOLD == 5
REPLAY_INTERVAL == 30

(* the f32 nearest to m / 2^e (ties to even), as <<m, e>> *)
F32RoundDyadic(m, e) ==
    LET d == Log2Floor(m) - 23
        s0 == m \div Pow2(d)
        r == m % Pow2(d)
        s == IF 2 * r > Pow2(d) THEN s0 + 1
             ELSE IF 2 * r = Pow2(d) THEN s0 + (s0 % 2)
             ELSE s0
    IN IF m = 0 \/ d <= 0 THEN <<m, e>> ELSE <<s, e - d>>

(* 1_f32 / f as f32 *)
F32Recip(f) ==
    LET j == CHOOSE i \in 0..16 : Pow2(i) >= f /\ (i = 0 \/ Pow2(i - 1) < f)
        q == Pow2(23 + j) \div f
        r == Pow2(23 + j) % f
    IN <<IF 2 * r > f THEN q + 1
         ELSE IF 2 * r = f THEN q + (q % 2)
         ELSE q,
         23 + j>>

(* x.ceil() as usize *)
F32Ceil(x) ==
    IF x[2] <= 0 THEN x[1] * Pow2(-x[2])
    ELSE (x[1] + Pow2(x[2]) - 1) \div Pow2(x[2])

(* a drain count that rounds down instead of up *)
ToDrainFloor(f, len) == len \div f

(* to_drain = ((1_f32 / freq as f32) * queue.len() as f32).ceil() as usize *)
ToDrain(f, len) ==
    F32Ceil(F32RoundDyadic(F32Recip(f)[1] * len, F32Recip(f)[2]))

(***************************************************************************)
(* The packing buffer is the sequence of the payloads extended into it:   *)
(* its bytes are their concatenation, and buffer.len() is BufLen.          *)
(***************************************************************************)
RECURSIVE BufLen(_)
BufLen(buffer) ==
    IF buffer = <<>> THEN 0
    ELSE IF Len(buffer) = 1 THEN Len(buffer[1])
    ELSE BufLen(SubSeq(buffer, 1, Len(buffer) \div 2))
         + BufLen(SubSeq(buffer, Len(buffer) \div 2 + 1, Len(buffer)))

RECURSIVE BufBytes(_)
BufBytes(buffer) ==
    IF buffer = <<>> THEN <<>> ELSE Head(buffer) \o BufBytes(Tail(buffer))

(* the locals and fields the send phase works on; out is the datagrams    *)
(* handed to send_to_all_clients so far                                    *)
UdpState(buffer, q, ib, out) ==
    [buffer |-> buffer, queue |-> q, inactive_buffer |-> ib, out |-> out]

(* a fit test that forgets the length of the payload to add *)
OverflowsIgnoringPayload(buffer, p) == BufLen(buffer) > UDP_MAX_SIZE

(* buffer.len() + p.payload.len() > UDP_MAX_SIZE *)
Overflows(buffer, p) == BufLen(buffer) + Len(p.payload) > UDP_MAX_SIZE

(* flush when the payload does not fit, then extend the buffer with it *)
PackInto(st, p) ==
    IF Overflows(st.buffer, p)
    THEN [st EXCEPT !.out = Append(@, st.buffer), !.buffer = <<p.payload>>]
    ELSE [st EXCEPT !.buffer = Append(@, p.payload)]

(* the body of the loop over the payloads of the tick *)
PackPayload(st, p) ==
    IF p.queueable
    THEN [st EXCEPT !.queue = Append(@, p),
                    !.inactive_buffer = <<p>> \o @]
    ELSE PackInto(st, p)

RECURSIVE PackLoop(_, _)
PackLoop(st, items) ==
    IF items = <<>> THEN st
    ELSE LET next == PackPayload(st, Head(items))
         IN CASE Len(next.out) >= 0 -> PackLoop(next, Tail(items))

(* a truncate that drops from the front, where the newest payloads are *)
TruncateFront(ib) ==
    IF Len(ib) > INACTIVE_BUFFER_SIZE
    THEN SubSeq(ib, Len(ib) - INACTIVE_BUFFER_SIZE + 1, Len(ib))
    ELSE ib

(* inactive_buffer.truncate(INACTIVE_BUFFER_SIZE) *)
Truncate(ib) ==
    IF Len(ib) > INACTIVE_BUFFER_SIZE THEN SubSeq(ib, 1, INACTIVE_BUFFER_SIZE)
    ELSE ib

(* a drain that pops nothing *)
DrainLoopSkipped(st, n) == st

(* the paced drain: to_drain times pop_front, flush when full, extend *)
RECURSIVE DrainLoop(_, _)
DrainLoop(st, n) ==
    IF n = 0 THEN st
    ELSE LET next == PackInto([st EXCEPT !.queue = Tail(@)], Head(st.queue))
         IN CASE Len(next.out) >= 0 -> DrainLoop(next, n - 1)

(* a fill that pops the payloads that fit and leaves them out of the *)
(* datagram                                                         *)
RECURSIVE FillLoopDropping(_)
FillLoopDropping(st) ==
    IF st.queue # <<>>
       /\ BufLen(st.buffer) + Len(Head(st.queue).payload) <= UDP_MAX_SIZE
    THEN FillLoopDropping([st EXCEPT !.queue = Tail(@)])
    ELSE st

(* the opportunistic fill: pop while the front of the queue still fits *)
RECURSIVE FillLoop(_)
FillLoop(st) ==
    IF st.queue # <<>>
       /\ BufLen(st.buffer) + Len(Head(st.queue).payload) <= UDP_MAX_SIZE
    THEN LET next == [st EXCEPT !.queue = Tail(@),
                                !.buffer = Append(@, Head(st.queue).payload)]
         IN CASE Len(next.out) >= 0 -> FillLoop(next)
    ELSE st

(* a send phase that ends without the last send *)
FlushRestForgotten(st) == st

(* if !buffer.is_empty(): fill, send, clear *)
FlushRest(st) ==
    IF BufLen(st.buffer) # 0
    THEN Valued(FillLoop(st),
                LAMBDA filled : [filled EXCEPT !.out = Append(@, filled.buffer),
                                               !.buffer = <<>>])
    ELSE st

(* the send phase of UDP::run: pack, truncate, drain, fill and flush *)
SendPhase(q, ib, items, f) ==
    Valued(PackLoop(UdpState(<<>>, q, ib, <<>>), items), LAMBDA packed :
    Valued([packed EXCEPT !.inactive_buffer = Truncate(@)], LAMBDA cut :
    Valued(DrainLoop(cut, ToDrain(f, Len(cut.queue))), FlushRest)))

(* the Client update_clients_list inserts *)
NewClient(clk) ==
    [active |-> TRUE, last_reply |-> clk, in_app |-> FALSE,
     last_refused |-> clk, last_replay |-> clk]

(* a reconcile that opens every alive client anew *)
update_clients_list_anew(cl, alive, clk) == [ip \in alive |-> NewClient(clk)]

(* update_clients_list once the lease file parsed to the set alive *)
update_clients_list(cl, alive, clk) ==
    [ip \in alive |-> IF ip \in DOMAIN cl THEN cl[ip] ELSE NewClient(clk)]

(* the inotify loop of UDP::run: lease is Some(alive) when an event named  *)
(* the lease file and the file parsed, None otherwise                      *)
LeaseEvent(cl, lease, clk) ==
    IF IsSome(lease) THEN update_clients_list(cl, Unwrap(lease), clk) ELSE cl

(* send_to_all_clients for n datagrams: refusing is the set of clients     *)
(* whose socket answers ConnectionRefused                                   *)
send_to_all_clients(cl, refusing, n, clk) ==
    [ip \in DOMAIN cl |->
        IF n > 0 /\ ip \in refusing
        THEN [cl[ip] EXCEPT !.last_refused = clk] ELSE cl[ip]]

(* read_icmp_responses: replies is the set of clients with an echo reply *)
read_icmp_responses(cl, replies, clk) ==
    [ip \in DOMAIN cl |->
        IF ip \in replies THEN [cl[ip] EXCEPT !.last_reply = clk] ELSE cl[ip]]

(* the liveness part of the reconcile loop for one client *)
ReconcileActive(c, clk) ==
    IF AsSecs(clk - c.last_reply) > DEAD_THRESHOLD
    THEN [c EXCEPT !.active = FALSE]
    ELSE IF ~c.active
    THEN [c EXCEPT !.active = TRUE, !.last_refused = clk]
    ELSE c

(* whether the reconcile loop marks the client for a replay *)
NeedsReplay(c, clk) ==
    LET c1 == ReconcileActive(c, clk)
    IN c1.active /\ ~(AsSecs(clk - c1.last_refused) < IN_APP_THRESHOLD)
       /\ ~c1.in_app

(* the reconcile loop for one client *)
Reconcile(c, clk) ==
    LET c1 == ReconcileActive(c, clk)
    IN IF ~c1.active THEN c1
       ELSE IF AsSecs(clk - c1.last_refused) < IN_APP_THRESHOLD
       THEN [c1 EXCEPT !.in_app = FALSE]
       ELSE [c1 EXCEPT !.in_app = TRUE]

RECURSIVE Reverse(_)
Reverse(q) == IF q = <<>> THEN <<>> ELSE Append(Reverse(Tail(q)), Head(q))

(* the loop of the replay over inactive_buffer.iter().rev() for one client *)
RECURSIVE ReplayPack(_, _)
ReplayPack(st, ps) ==
    IF ps = <<>> THEN st
    ELSE LET next == IF Overflows(st.buffer, Head(ps))
                     THEN [buffer |-> <<Head(ps).payload>>,
                           out |-> Append(st.out, st.buffer)]
                     ELSE [buffer |-> Append(st.buffer, Head(ps).payload),
                           out |-> st.out]
         IN CASE Len(next.out) >= 0 -> ReplayPack(next, Tail(ps))

(* the replay to one client: the buffer is not cleared after the last send *)
ReplayTo(buffer, ib) ==
    LET st == ReplayPack([buffer |-> buffer, out |-> <<>>], Reverse(ib))
    IN IF BufLen(st.buffer) # 0
       THEN [st EXCEPT !.out = Append(@, st.buffer)]
       ELSE st

(* a loop over need_replay that does not look at last_replay *)
RECURSIVE ReplayLoopUnspaced(_, _, _, _)
ReplayLoopUnspaced(st, order, ib, clk) ==
    IF order = <<>> THEN st
    ELSE LET ip == Head(order)
             r == ReplayTo(st.buffer, ib)
         IN ReplayLoopUnspaced(
              [clients |-> [st.clients EXCEPT ![ip].last_replay = clk],
               buffer |-> r.buffer,
               out |-> st.out
                       \o [i \in 1..Len(r.out) |->
                              [to |-> {ip}, kind |-> "replay",
                               data |-> r.out[i]]]],
              Tail(order), ib, clk)

(* the loop over need_replay, in the order the HashSet yields *)
RECURSIVE ReplayLoop(_, _, _, _)
ReplayLoop(st, order, ib, clk) ==
    IF order = <<>> THEN st
    ELSE LET ip == Head(order)
             r == ReplayTo(st.buffer, ib)
         IN IF AsSecs(clk - st.clients[ip].last_replay) < REPLAY_INTERVAL
            THEN ReplayLoop(st, Tail(order), ib, clk)
            ELSE ReplayLoop(
                   [clients |-> [st.clients EXCEPT ![ip].last_replay = clk],
                    buffer |-> r.buffer,
                    out |-> st.out
                            \o [i \in 1..Len(r.out) |->
                                   [to |-> {ip}, kind |-> "replay",
                                    data |-> r.out[i]]]],
                   Tail(order), ib, clk)

(* the datagrams of the send phase as the history records them *)
Broadcasts(cl, out) ==
    [i \in 1..Len(out) |->
        [to |-> DOMAIN cl, kind |-> "broadcast", data |-> out[i]]]

----------------------------------------------------------------------------
(* src/processor/fisb.rs *)

(* FISB::run: one Report::FISB for each SensorData::FISB, in order *)
RECURSIVE FISBReports(_)
FISBReports(items) ==
    IF items = <<>> THEN <<>>
    ELSE (IF Head(items).kind = "FISB"
          THEN <<[kind |-> "FISB", payload |-> Head(items).payload]>>
          ELSE <<>>)
         \o FISBReports(Tail(items))

----------------------------------------------------------------------------
(* src/processor/ownship.rs and src/processor/clock.rs *)

(***************************************************************************)
(* f32 arithmetic on integers below 2^24, which an f32 holds exactly.  A   *)
(* positive f32 is <<s, e>> for s / 2^e, normalised when                   *)
(* 2^23 <= s < 2^24.  Every intermediate value stays below 2^31.           *)
(***************************************************************************)
F32_3 == <<12582912, 22>>
F32_10 == <<10485760, 20>>
F32_30 == <<15728640, 19>>
F32_92_6 == <<12137267, 17>>
F32_185_2 == <<12137267, 16>>
F32_555_6 == <<9102950, 14>>
F32_MM_TO_FT == <<14091101, 32>>
F32_MMPS_TO_KTS == <<16697458, 33>>

(* <<floor(r * 2^n / den), (r * 2^n) mod den>> for r < den <= 2^10 *)
RECURSIVE LongDiv(_, _, _)
LongDiv(r, den, n) ==
    IF n <= 20 THEN <<(r * Pow2(n)) \div den, (r * Pow2(n)) % den>>
    ELSE LET hi == LongDiv(r, den, 20)
             lo == LongDiv(hi[2], den, n - 20)
         IN <<hi[1] * Pow2(n - 20) + lo[1], lo[2]>>

(* round to nearest, ties to even: s0 with the remainder rem of den *)
RoundEven(s0, rem, den) ==
    IF 2 * rem > den THEN s0 + 1
    ELSE IF 2 * rem = den THEN s0 + (s0 % 2)
    ELSE s0

(* a significand that the rounding has carried to 2^24 *)
Renormalise(s, e) == IF s = Pow2(24) THEN <<Pow2(23), e - 1>> ELSE <<s, e>>

(* (num as f32) / (den as f32) for 0 <= num < 2^24 and 2 <= den <= 2^10 *)
F32DivInt(num, den) ==
    LET q == num \div den
        r == num % den
    IN IF num = 0 THEN <<0, 0>>
       ELSE IF q > 0
       THEN LET fb == 23 - Log2Floor(q)
                ld == LongDiv(r, den, fb)
            IN Renormalise(RoundEven(q * Pow2(fb) + ld[1], ld[2], den), fb)
       ELSE LET z == CHOOSE i \in 1..10 :
                        r * Pow2(i) >= den /\ r * Pow2(i - 1) < den
                ld == LongDiv(r, den, 23 + z)
            IN Renormalise(RoundEven(ld[1], ld[2], den), 23 + z)

(* x < y for normalised f32, or x zero *)
F32Less(x, y) ==
    IF x[1] = 0 THEN y[1] > 0
    ELSE x[2] > y[2] \/ (x[2] = y[2] /\ x[1] < y[1])

(* (x as f32) * c for 0 <= x < 2^24 and a normalised constant c: the       *)
(* product A * 2^24 + B is built from 12-bit halves and rounded to 24 bits *)
F32MulInt(x, c) ==
    LET xh == x \div 4096
        xl == x % 4096
        mh == c[1] \div 4096
        ml == c[1] % 4096
        mid == xh * ml + xl * mh
        b0 == (mid % 4096) * 4096 + xl * ml
        A == xh * mh + mid \div 4096 + b0 \div Pow2(24)
        B == b0 % Pow2(24)
        k == Log2Floor(A)
    IN IF A = 0 THEN <<B, c[2]>>
       ELSE Renormalise(RoundEven(A * Pow2(23 - k) + B \div Pow2(k + 1),
                                  B % Pow2(k + 1), Pow2(k + 1)),
                        c[2] - 24 + 23 - k)

(* f32::round of a value below 2^24: half away from zero *)
F32Round(v) ==
    IF v[2] <= 0 THEN v[1] * Pow2(-v[2])
    ELSE IF v[2] > 30 THEN 0
    ELSE (v[1] + Pow2(v[2] - 1)) \div Pow2(v[2])

(* mm_to_ft!(x).round() as i32 *)
mm_to_ft(x) ==
    IF x < 0 THEN -F32Round(F32MulInt(-x, F32_MM_TO_FT))
    ELSE F32Round(F32MulInt(x, F32_MM_TO_FT))

(* mmps_to_kts!(x), an f32 *)
mmps_to_kts(x) == F32MulInt(x, F32_MMPS_TO_KTS)

(* a match whose steps take the threshold itself: <= for < *)
NacpInclusive(acc) ==
    LET n == F32DivInt(acc, 1000)
    IN IF ~F32Less(F32_3, n) THEN 11
       ELSE IF ~F32Less(F32_10, n) THEN 10
       ELSE IF ~F32Less(F32_30, n) THEN 9
       ELSE IF ~F32Less(F32_92_6, n) THEN 8
       ELSE IF ~F32Less(F32_185_2, n) THEN 7
       ELSE IF ~F32Less(F32_555_6, n) THEN 6
       ELSE 0

(* the match on acc as f32 / 1000_f32 *)
Nacp(acc) ==
    LET n == F32DivInt(acc, 1000)
    IN IF F32Less(n, F32_3) THEN 11
       ELSE IF F32Less(n, F32_10) THEN 10
       ELSE IF F32Less(n, F32_30) THEN 9
       ELSE IF F32Less(n, F32_92_6) THEN 8
       ELSE IF F32Less(n, F32_185_2) THEN 7
       ELSE IF F32Less(n, F32_555_6) THEN 6
       ELSE 0

(* Ownship::default() *)
OwnshipDefault ==
    [valid |-> FALSE, lat |-> <<0, 0>>, lon |-> <<0, 0>>, msl_altitude |-> 0,
     hae_altitude |-> 0, pressure_altitude |-> None, vs |-> None,
     nic |-> 0, nacp |-> 0, gs |-> <<0, 0>>, true_track |-> 0]

(* the arm of Ownship::run for a TimeFix that carries the fix f *)
OwnshipFix(o, f) ==
    [o EXCEPT
       !.nic = IF IsSome(f.lat_lon[2]) THEN 9 ELSE 0,
       !.nacp = IF IsSome(f.lat_lon[2]) THEN Nacp(Unwrap(f.lat_lon[2])) ELSE 0,
       !.lat = f.lat_lon[1][1],
       !.lon = f.lat_lon[1][2],
       !.msl_altitude = mm_to_ft(f.height_msl[1]),
       !.hae_altitude = mm_to_ft(f.height_ellipsoid[1]),
       !.gs = mmps_to_kts(f.gs[1]),
       !.true_track = f.true_course[1],
       !.valid = TRUE]

(* the smoothed vertical speed of the Baro arm.  With a reading equal to   *)
(* the last one and a vertical speed of 0 both terms of the sum are 0; the *)
(* sensors of the model give no other readings.                            *)
BaroVs(o, b) ==
    IF ~IsSome(o.pressure_altitude) THEN o.vs
    ELSE IF ~IsSome(o.vs) THEN Some(0)
    ELSE CASE Unwrap(o.vs) = 0 /\ b = Unwrap(o.pressure_altitude) -> Some(0)

(* a Baro arm that starts from a new Ownship *)
OwnshipBaroAnew(o, b) ==
    [OwnshipDefault EXCEPT !.pressure_altitude = Some(b)]

(* the arm of Ownship::run for a Baro reading b *)
OwnshipBaro(o, b) ==
    [o EXCEPT !.vs = BaroVs(o, b), !.pressure_altitude = Some(b)]

(* one item of the loop of Ownship::run: the Ownship after it *)
OwnshipItem(o, e) ==
    IF e.kind = "TimeFix" /\ IsSome(e.fix) THEN OwnshipFix(o, Unwrap(e.fix))
    ELSE IF e.kind = "Baro" THEN OwnshipBaro(o, e.b)
    ELSE o

(* the item makes Ownship::run push a report *)
OwnshipReports(e) ==
    (e.kind = "TimeFix" /\ IsSome(e.fix)) \/ e.kind = "Baro"

(* Ownship::run: the Ownship after the items, and the reports pushed *)
RECURSIVE OwnshipLoop(_, _)
OwnshipLoop(st, items) ==
    IF items = <<>> THEN st
    ELSE LET o == OwnshipItem(st.ownship, Head(items))
             next == [ownship |-> o,
                      out |-> IF OwnshipReports(Head(items))
                              THEN Append(st.out, [kind |-> "Ownship", o |-> o])
                              ELSE st.out]
         IN CASE Len(next.out) >= 0 -> OwnshipLoop(next, Tail(items))

OwnshipRun(o, items) == OwnshipLoop([ownship |-> o, out |-> <<>>], items)

MAX_TOLERANCE == 2

(* Clock::run: the timestamp it hands to clock_settime, if any: that of    *)
(* the first TimeFix whose time is more than MAX_TOLERANCE s from the wall *)
(* clock of the handle                                                     *)
RECURSIVE ClockRun(_, _)
ClockRun(wall, items) ==
    IF items = <<>> THEN None
    ELSE IF /\ Head(items).kind = "TimeFix"
            /\ IsSome(Head(items).time)
            /\ Abs(wall - Unwrap(Head(items).time)) > MAX_TOLERANCE
         THEN Head(items).time
         ELSE ClockRun(wall, Tail(items))

(* the handle of a tick, and the clock a stage reads from it *)
BasicHandle(clk, wall) == [clock |-> clk, utc |-> wall]

(* a get_clock that answers with the wall clock *)
get_clock_wall(h) == 1000 * h.utc

(* Handle::get_clock: the monotonic instant *)
get_clock(h) == h.clock

(* the outcome of Clock::run for the system clock: ts is the time set and  *)
(* at the monotonic instant of the tick that set it; ok is whether         *)
(* clock_settime succeeded                                                 *)
ClockSet(st, wall, clk, items, ok) ==
    IF IsSome(ClockRun(wall, items)) /\ ok
    THEN Some([ts |-> Unwrap(ClockRun(wall, items)), at |-> clk])
    ELSE st

(* now_utc() of BasicHandle::new at the monotonic instant clk: one of utcs *)
(* while Clock::run has not set the system clock, and afterwards the time  *)
(* it set plus the time elapsed, the fraction of a second unknown          *)
Walls(utcs, st, clk) ==
    IF IsSome(st)
    THEN {Unwrap(st).ts + AsSecs(clk - Unwrap(st).at),
          Unwrap(st).ts + AsSecs(clk - Unwrap(st).at) + 1}
    ELSE utcs

----------------------------------------------------------------------------
(* the sensors of src/sensor/sdr and their channels *)

(* the sensors main links that own a channel, in link order *)
Sensors == <<"ES", "UAT">>
SensorNames == {Sensors[i] : i \in DOMAIN Sensors}

(* what Sensor::run pushes for the value u its try_iter yields: ES wraps   *)
(* the TrafficData, UAT turns a ground uplink frame into FISBData.  The    *)
(* frames of the model are ground uplinks: parse_adsb_downlink, which      *)
(* reads a traffic report from an ADS-B frame, is not modelled.            *)
SensorPush(s, u) ==
    CASE s = "ES" -> [kind |-> "Traffic", t |-> u]
      [] s = "UAT" /\ u.frame_type = "GroundUplink" ->
           [kind |-> "FISB", payload |-> u.payload]

(* a try_iter that yields the value sent last *)
TryIterNewest(ch) == ch[Len(ch)]

(* the value Receiver::try_iter yields next, what it leaves, and whether   *)
(* it ends: it yields None as soon as the channel holds nothing            *)
TryIterNext(ch) == Head(ch)
TryIterRest(ch) == Tail(ch)
TryIterEnds(ch) == ch = <<>>

(* Sender::send *)
ChannelSend(ch, v) == Append(ch, v)

----------------------------------------------------------------------------
(* a second run of the processors and of GDL90::run: the same items at the *)
(* same monotonic instants, another wall clock                             *)

TwinNew(on, pav) ==
    [on |-> on, utc |-> 0, settime |-> None, ownship |-> OwnshipDefault,
     situation |-> <<>>, cleanup_counter |-> 0, report_counter |-> 0,
     report_queue |-> <<>>, reports |-> <<>>, ownship_valid |-> FALSE,
     ownship_counter |-> 0, pres_alt_valid |-> pav, payloads |-> <<>>]

(* run_processors of the second run *)
TwinProcessors(tw, f, clk, items, order, ok) ==
    LET now == get_clock(BasicHandle(clk, tw.utc))
        own == OwnshipRun(tw.ownship, items)
        out == own.out
               \o TrafficReports(tw.situation, tw.cleanup_counter,
                                 tw.report_counter, f, now, items, order)
               \o FISBReports(items)
    IN [tw EXCEPT
          !.ownship = own.ownship,
          !.settime = ClockSet(tw.settime, tw.utc, clk, items, ok),
          !.situation = TrafficSituation(tw.situation, tw.cleanup_counter, f,
                                         now, items),
          !.cleanup_counter = RunEveryCounter(CLEANUP_FREQ, @, f),
          !.report_counter = RunEveryCounter(REPORT_FREQ, @, f),
          !.report_queue = @ \o out,
          !.reports = out]

(* the loop of GDL90::run of the second run *)
TwinProtocols(tw, f, clk) ==
    LET st == GDL90Loop(GDL90State(tw.ownship_counter + 1, tw.ownship_valid,
                                   tw.pres_alt_valid, <<>>),
                        tw.report_queue, f, get_clock(BasicHandle(clk, tw.utc)))
    IN [tw EXCEPT
          !.ownship_counter = st.ownship_counter,
          !.ownship_valid = st.ownship_valid,
          !.pres_alt_valid = st.pres_alt_valid,
          !.payloads = st.out,
          !.report_queue = <<>>]

----------------------------------------------------------------------------
(* src/pitot/mod.rs *)

(* a loop that calls run_protocols before run_processors *)
NextStageSwapped(stage) ==
    CASE stage = "handle" -> "sensors"
      [] stage = "sensors" -> "protocols"
      [] stage = "protocols" -> "processors"
      [] stage = "processors" -> "transports"
      [] stage = "transports" -> "handle"

(* the order of the calls in the loop of Pitot::run *)
NextStage(stage) ==
    CASE stage = "handle" -> "sensors"
      [] stage = "sensors" -> "processors"
      [] stage = "processors" -> "protocols"
      [] stage = "protocols" -> "transports"
      [] stage = "transports" -> "handle"

(* a stage that leaves its input queue as it is *)
KeepQueue(q) == q

(* VecDeque::clear at the end of run_processors, run_protocols and          *)
(* run_transports                                                           *)
ClearQueue(q) == <<>>

----------------------------------------------------------------------------
(* src/sensor/gnss/ublox.rs *)

(* the buffer_size UbloxGNSSProvider::new gives UBXCommunicator::new *)
BUFFER_SIZE == 1024

(* UBXCommunicator::new: start and end are indices into v, and live is     *)
(* v[start..end], the bytes read and not yet parsed                        *)
UBXCommunicatorNew == [start |-> 0, end |-> 0, live |-> <<>>]

(* a serial port: wire is the bytes the receiver has sent that no read has *)
(* taken, later the bytes it sends before the following ticks, fault       *)
(* whether read fails with an error other than TimedOut: never ("none"),   *)
(* the next time ("once"), every time ("stuck")                            *)
SerialPort(wire, later, fault) ==
    [wire |-> wire, later |-> later, fault |-> fault]

SerialIdle == SerialPort(<<>>, <<>>, "none")

(* make_ubx_checksum: two wrapping u8 sums *)
RECURSIVE UbxSums(_, _)
UbxSums(buf, i) ==
    IF i = 0 THEN {<<0, 0>>}
    ELSE {<<(ck[1] + buf[i]) % 256, (ck[2] + ck[1] + buf[i]) % 256>> :
              ck \in UbxSums(buf, i - 1)}

make_ubx_checksum(buf) == CHOOSE ck \in UbxSums(buf, Len(buf)) : TRUE

(* UBXPacket::to_wire *)
to_wire(class, id, payload) ==
    LET body == <<class, id, Len(payload) % 256, Len(payload) \div 256>>
                \o payload
    IN <<181, 98>> \o body \o make_ubx_checksum(body)

(* take_until_and_consume!(&[0xB5, 0x62]): the index of the first sync, 0  *)
(* when s has none                                                         *)
SyncAt(s) ==
    LET at == {i \in 1..(Len(s) - 1) : s[i] = 181 /\ s[i + 1] = 98}
    IN IF at = {} THEN 0 ELSE CHOOSE i \in at : \A j \in at : i <= j

(* parse_ubx_message on the bytes s: Incomplete when s is shorter than the *)
(* sync or ends inside a packet, Error when s has no sync or the checksum  *)
(* of the packet is wrong (new_from_parser), else Done with the packet and *)
(* the number of bytes left after it                                       *)
parse_ubx_message(s) ==
    LET i == SyncAt(s)
        r == SubSeq(s, i + 2, Len(s))
        len == r[3] + 256 * r[4]
    IN IF Len(s) < 2 THEN [tag |-> "Incomplete"]
       ELSE IF i = 0 THEN [tag |-> "Error"]
       ELSE IF Len(r) < 4 \/ Len(r) < 4 + len + 2 THEN [tag |-> "Incomplete"]
       ELSE IF make_ubx_checksum(SubSeq(r, 1, 4 + len))
               # <<r[4 + len + 1], r[4 + len + 2]>>
       THEN [tag |-> "Error"]
       ELSE [tag |-> "Done", rem |-> Len(r) - (4 + len + 2),
             class |-> r[1], id |-> r[2],
             payload |-> SubSeq(r, 5, 4 + len)]

(* whether parse_ubx_nav_pvt returns Done: the fields take 92 bytes *)
PvtParses(payload) == Len(payload) >= 92

(* whether parse_ubx_nav_sat returns Done: 4 bytes of iTOW, the version 1, *)
(* numSvs, 2 bytes reserved and 12 bytes for each satellite                *)
SatParses(payload) ==
    /\ Len(payload) >= 8
    /\ payload[5] = 1
    /\ Len(payload) >= 8 + 12 * payload[6]

(* UBXCommunicator::refill up to the read: shift moves v[start..end] to    *)
(* the front                                                               *)
Shifted(c) == [c EXCEPT !.start = 0, !.end = c.end - c.start]

(* what serial.read(remaining) may return for room bytes of room: Ok(0)    *)
(* without a read when there is no room, an error, or bytes of the wire,   *)
(* all that fit or half of them; with a timeout of 0 s an empty wire is    *)
(* TimedOut                                                                *)
ReadOutcomes(port, room) ==
    IF room = 0 THEN {[res |-> "Ok", n |-> 0]}
    ELSE IF port.fault # "none" THEN {[res |-> "Other", n |-> 0]}
    ELSE IF port.wire = <<>> THEN {[res |-> "TimedOut", n |-> 0]}
    ELSE LET most == IF Len(port.wire) < room THEN Len(port.wire) ELSE room
         IN {[res |-> "Ok", n |-> c] : c \in {most, (most + 1) \div 2}}

(* the port after the read that returned r *)
AfterRead(port, room, r) ==
    IF room = 0 THEN port
    ELSE [port EXCEPT !.wire = SubSeq(@, r.n + 1, Len(@)),
                      !.fault = IF @ = "once" THEN "none" ELSE @]

NoHistory == [sensors |-> <<>>, processors |-> <<>>, protocols |-> <<>>,
              transports |-> <<>>]

(* Pitot::new(f), with the processors Traffic and FISB, the protocol GDL90  *)
(* and the transports tr linked; cl is what UDP::new found in the lease     *)
(* file; pav is GDL90.pres_alt_valid, false at construction and true once  *)
(* an ownship report has carried a pressure altitude; ib is what the       *)
(* queueable payloads of earlier ticks have left in UDP.inactive_buffer;    *)
(* port is the serial port of the GNSS receiver                             *)
PitotAfter(f, tr, cl, pav, on, sn, at, ib, port) ==
    /\ pc = at
    /\ comm = UBXCommunicatorNew
    /\ serial = port
    /\ sensors = sn
    /\ arg = None
    /\ ret = None
    /\ ran = {}
    /\ ticks = 0
    /\ clock = 0
    /\ utc = 0
    /\ freq = f
    /\ transports = tr
    /\ sensor_queue = <<>>
    /\ report_queue = <<>>
    /\ payload_queue = <<>>
    /\ situation = <<>>
    /\ cleanup_counter = 0
    /\ report_counter = 0
    /\ ownship_valid = FALSE
    /\ heartbeat_counter = 0
    /\ ownship_counter = 0
    /\ pres_alt_valid = pav
    /\ clients = [ip \in cl |-> NewClient(0)]
    /\ queue = <<>>
    /\ inactive_buffer = ib
    /\ ping_counter = 0
    /\ ownship = OwnshipDefault
    /\ settime = None
    /\ chan = [s \in SensorNames |-> <<>>]
    /\ stepping = 1
    /\ io_sent = [s \in SensorNames |-> <<>>]
    /\ drained = [s \in SensorNames |-> <<>>]
    /\ twin = TwinNew(on, pav)
    /\ nfed = 0
    /\ pushed = NoHistory
    /\ seen = NoHistory
    /\ tlog = <<>>
    /\ sent = <<>>

(* Pitot::new: VecDeque::with_capacity(INACTIVE_BUFFER_SIZE) is empty *)
PitotLinked(f, tr, cl, pav, on, sn, at) ==
    PitotAfter(f, tr, cl, pav, on, sn, at, <<>>, SerialIdle)

(* Pitot::new and the links of main done, the ES and UAT sensors linked,   *)
(* Pitot::run about to start                                               *)
PitotNewTwin(f, tr, cl, pav, on) ==
    PitotLinked(f, tr, cl, pav, on, Sensors, "handle")

(* Pitot::new and the links of main, the second run not followed *)
PitotNew(f, tr, cl, pav) == PitotNewTwin(f, tr, cl, pav, FALSE)

(* the top of the loop: self.handle = BasicHandle::new(self.frequency);     *)
(* the monotonic clock has advanced by one of steps, the wall clock reads   *)
(* one of utcs                                                              *)
NewHandle(steps, utcs, maxTicks) ==
    /\ pc = "handle"
    /\ ticks < maxTicks
    /\ \E d \in steps : clock' = clock + d
    /\ \E u \in Walls(utcs, settime, clock') : utc' = u
    /\ \E u \in Walls(utcs, twin.settime, clock') :
          twin' = IF twin.on THEN [twin EXCEPT !.utc = u] ELSE twin
    /\ ticks' = ticks + 1
    /\ pc' = NextStage(pc)
    /\ pushed' = NoHistory
    /\ seen' = NoHistory
    /\ tlog' = <<>>
    /\ sent' = <<>>
    /\ ran' = {}
    /\ UNCHANGED <<freq, transports, arg, ret, gnssVars, sensors, queueVars,
                   trafficVars, gdl90Vars, udpVars, ownshipVars, chanVars,
                   nfed>>

(* run_sensors: the sensors push one of batches *)
RunSensors(batches, maxFed) ==
    /\ pc = "sensors"
    /\ \E b \in batches :
          /\ nfed + Len(b) <= maxFed
          /\ sensor_queue' = sensor_queue \o b
          /\ pushed' = [pushed EXCEPT !.sensors = b]
          /\ nfed' = nfed + Len(b)
    /\ pc' = NextStage(pc)
    /\ UNCHANGED <<ticks, handleVars, freq, transports, arg, ret, gnssVars, ran,
                   sensors, report_queue,
                   payload_queue, trafficVars, gdl90Vars, udpVars, ownshipVars,
                   chanVars, twin, seen, tlog, sent>>

(* run_processors: Ownship::run, Clock::run, Traffic::run, then FISB::run,  *)
(* then the clear.  clock_settime succeeds or fails.  The second run, when *)
(* followed, is handed the same items and iterates its map the same way.   *)
RunProcessors ==
    /\ pc = "processors"
    /\ LET now == get_clock(BasicHandle(clock, utc))
           sit == TrafficSituation(situation, cleanup_counter, freq, now,
                                   sensor_queue)
           own == OwnshipRun(ownship, sensor_queue)
       IN /\ situation' = sit
          /\ ownship' = own.ownship
          /\ \E order \in Orders(DOMAIN sit) :
                LET out == own.out
                           \o TrafficReports(situation, cleanup_counter,
                                             report_counter, freq, now,
                                             sensor_queue, order)
                           \o FISBReports(sensor_queue)
                IN /\ report_queue' = report_queue \o out
                   /\ pushed' = [pushed EXCEPT !.processors = out]
                   /\ \E ok \in BOOLEAN :
                         twin' = IF twin.on
                                 THEN TwinProcessors(twin, freq, clock,
                                                     sensor_queue, order, ok)
                                 ELSE twin
    /\ \E ok \in BOOLEAN :
          settime' = ClockSet(settime, utc, clock, sensor_queue, ok)
    /\ cleanup_counter' = RunEveryCounter(CLEANUP_FREQ, cleanup_counter, freq)
    /\ report_counter' = RunEveryCounter(REPORT_FREQ, report_counter, freq)
    /\ ran' = RunEveryRan("cleanup", CLEANUP_FREQ, cleanup_counter, freq)
              \cup RunEveryRan("report", REPORT_FREQ, report_counter, freq)
    /\ tlog' = TrafficLog(situation, sensor_queue, clock)
    /\ seen' = [seen EXCEPT !.processors = sensor_queue]
    /\ sensor_queue' = ClearQueue(sensor_queue)
    /\ pc' = NextStage(pc)
    /\ UNCHANGED <<ticks, handleVars, freq, transports, arg, ret, gnssVars, sensors,
                   payload_queue,
                   gdl90Vars, udpVars, chanVars, nfed, sent>>

(* run_protocols: GDL90::run, then the clear *)
RunProtocols ==
    /\ pc = "protocols"
    /\ LET st == GDL90Loop(GDL90State(ownship_counter + 1, ownship_valid,
                                      pres_alt_valid, <<>>),
                           report_queue, freq,
                           get_clock(BasicHandle(clock, utc)))
           out == st.out \o GDL90Heartbeat(st.ownship_valid,
                                           heartbeat_counter, freq, utc)
       IN /\ ownship_counter' = st.ownship_counter
          /\ ownship_valid' = st.ownship_valid
          /\ pres_alt_valid' = st.pres_alt_valid
          /\ payload_queue' = payload_queue \o out
          /\ pushed' = [pushed EXCEPT !.protocols = out]
    /\ twin' = IF twin.on THEN TwinProtocols(twin, freq, clock) ELSE twin
    /\ heartbeat_counter' = IF HeartbeatFires(heartbeat_counter, freq)
                            THEN 0 ELSE heartbeat_counter + 1
    /\ seen' = [seen EXCEPT !.protocols = report_queue]
    /\ report_queue' = ClearQueue(report_queue)
    /\ pc' = NextStage(pc)
    /\ UNCHANGED <<ticks, handleVars, freq, transports, arg, ret, gnssVars, ran,
                   sensors, sensor_queue,
                   trafficVars, udpVars, ownshipVars, chanVars, nfed, tlog,
                   sent>>

(* UDP::run on the payloads items.  The environment of the tick: lease is  *)
(* what the inotify loop found, refusing the clients whose socket answers   *)
(* ConnectionRefused, replies the clients whose echo reply has arrived.     *)
UDPRun(items, lease, refusing, replies) ==
    \E cl0 \in {LeaseEvent(clients, lease, clock)} :
    \E st \in {SendPhase(queue, inactive_buffer, items, freq)} :
    \E cl1 \in {send_to_all_clients(cl0, refusing, Len(st.out), clock)} :
    \E cl2 \in {read_icmp_responses(cl1, replies, clock)} :
    \E cl3 \in {[ip \in DOMAIN cl2 |-> Reconcile(cl2[ip], clock)]} :
       /\ queue' = st.queue
       /\ inactive_buffer' = st.inactive_buffer
       /\ ping_counter' = RunEveryCounter(PING_FREQ, ping_counter, freq)
       /\ ran' = ran \cup RunEveryRan("ping", PING_FREQ, ping_counter, freq)
       /\ \E order \in Orders({ip \in DOMAIN cl2 :
                                  NeedsReplay(cl2[ip], clock)}) :
          \E r \in {ReplayLoop([clients |-> cl3, buffer |-> st.buffer,
                                out |-> <<>>],
                               order, st.inactive_buffer, clock)} :
             /\ clients' = r.clients
             /\ sent' = Broadcasts(cl0, st.out) \o r.out

(* run_transports: every linked transport runs, then the clear; envs is   *)
(* what the tick may find outside: the lease file, the sockets             *)
RunTransports(envs) ==
    /\ pc = "transports"
    /\ IF transports = <<>>
       THEN UNCHANGED <<udpVars, sent, ran>>
       ELSE \E env \in envs :
               UDPRun(payload_queue, env.lease, env.refusing, env.replies)
    /\ seen' = [seen EXCEPT !.transports = payload_queue]
    /\ payload_queue' = ClearQueue(payload_queue)
    /\ pc' = NextStage(pc)
    /\ UNCHANGED <<ticks, handleVars, freq, transports, arg, ret, gnssVars, sensors,
                   sensor_queue,
                   report_queue, trafficVars, gdl90Vars, ownshipVars, chanVars,
                   twin, nfed, pushed, tlog>>

(* run_protocols with a linked protocol that pushes one of batches *)
RunAnyProtocol(batches, maxFed) ==
    /\ pc = "protocols"
    /\ \E b \in batches :
          /\ nfed + Len(b) <= maxFed
          /\ payload_queue' = payload_queue \o b
          /\ pushed' = [pushed EXCEPT !.protocols = b]
          /\ nfed' = nfed + Len(b)
    /\ seen' = [seen EXCEPT !.protocols = report_queue]
    /\ report_queue' = ClearQueue(report_queue)
    /\ pc' = NextStage(pc)
    /\ UNCHANGED <<ticks, handleVars, freq, transports, arg, ret, gnssVars, ran,
                   sensors, sensor_queue,
                   trafficVars, gdl90Vars, udpVars, ownshipVars, chanVars,
                   twin, tlog, sent>>

(* the tick finds nothing outside: no lease event, no refusal, no reply *)
Quiet == [lease |-> None, refusing |-> {}, replies |-> {}]

----------------------------------------------------------------------------
(* The inputs: what the sensors push (src/sensor/sdr/mod.rs, TrafficData)  *)

NoData(icao, typ, src) ==
    [addr |-> <<icao, typ>>, altitude |-> None, gnss_delta |-> None,
     heading |-> None, speed |-> None, vs |-> None, squawk |-> None,
     callsign |-> None, category |-> None, lat_lon |-> None, nic |-> None,
     nacp |-> None, on_ground |-> None, source |-> src]

AdsbPosition(icao) ==
    [NoData(icao, "ADSBICAO", "ES") EXCEPT
       !.lat_lon = Some(<<<<9896034, 18>>, <<-16059827, 17>>>>),
       !.altitude = Some(<<12375, "Baro">>),
       !.gnss_delta = Some(1000),
       !.nic = Some(7), !.nacp = Some(9), !.on_ground = Some(FALSE)]

AdsbVelocity(icao) ==
    [NoData(icao, "ADSBICAO", "ES") EXCEPT
       !.heading = Some(<<123, "True">>),
       !.speed = Some(<<66, "GS">>),
       !.vs = Some(-1000)]

AdsbIdent(icao) ==
    [NoData(icao, "ADSBOther", "UAT") EXCEPT
       !.callsign = Some(<<"T", "E", "S", "T">>),
       !.category = Some(3), !.squawk = Some(7700)]

TisbPosition(icao) ==
    [NoData(icao, "TISBICAO", "UAT") EXCEPT
       !.lat_lon = Some(<<<<9896034, 18>>, <<-16059827, 17>>>>),
       !.altitude = Some(<<5000, "GNSS">>),
       !.heading = Some(<<270, "Mag">>)]

AdsrVelocity(icao) ==
    [NoData(icao, "ADSROther", "UAT") EXCEPT
       !.speed = Some(<<250, "GS">>),
       !.vs = Some(640)]

TrafficItem(t) == [kind |-> "Traffic", t |-> t]

----------------------------------------------------------------------------
(* SpecTraffic: Pitot at 2 Hz with no transport linked, fed traffic only   *)

MaxTicksTraffic == 4
MaxFedTraffic == 2

StepsTraffic == {500, 2000, 4500}

(* the wall clock may be set between two ticks *)
UtcsTraffic == {0, 66049}

BatchesTraffic ==
    {<<>>,
     <<TrafficItem(AdsbPosition(10597059))>>,
     <<TrafficItem(AdsbVelocity(10597059))>>,
     <<TrafficItem(TisbPosition(10597059))>>,
     <<TrafficItem(AdsbIdent(10597059)), TrafficItem(AdsrVelocity(10597059))>>,
     <<TrafficItem(TisbPosition(11259375))>>}

InitTraffic == PitotNew(2, <<>>, {}, FALSE)

NextTraffic ==
    \/ NewHandle(StepsTraffic, UtcsTraffic, MaxTicksTraffic)
    \/ RunSensors(BatchesTraffic, MaxFedTraffic)
    \/ RunProcessors
    \/ RunProtocols
    \/ RunTransports({Quiet})

SpecTraffic == InitTraffic /\ [][NextTraffic]_vars

----------------------------------------------------------------------------
(* Properties of the traffic processor, checked under SpecTraffic *)

(* C3: for any sequence of traffic reports and ticks, the last_seen of a  *)
(* target that stays in the traffic map never decreases from one state to *)
(* the next.                                                              *)
C3_LastSeenNeverDecreases ==
    [][\A k \in (DOMAIN situation) \cap (DOMAIN situation') :
          situation'[k].last_seen >= situation[k].last_seen]_vars

(* a report for a known target was accepted and moved its last_seen on *)
C3_Witness ==
    \E i \in DOMAIN tlog :
        /\ tlog[i].known
        /\ ~tlog[i].skipped
        /\ tlog[i].after.last_seen > tlog[i].found.last_seen

RelayedTypes == {"ADSRICAO", "ADSROther", "TISBICAO", "TISBOther"}

(* C4: ADS-B lockout.  When Traffic::run meets an ADSR or TISB report for  *)
(* an ICAO whose stored address type is ADSBICAO or ADSBOther, then: if    *)
(* the last accepted update is less than 2 s (2000 ms) old, the target     *)
(* keeps its source and its address type; if it is 2 s old or more, the    *)
(* report is accepted and address type and source are those of the report. *)
C4_AdsbLockout ==
    \A i \in DOMAIN tlog :
        (/\ tlog[i].known
         /\ IsADSB(tlog[i].found.addr[2])
         /\ tlog[i].t.addr[2] \in RelayedTypes)
        => IF clock - tlog[i].found.last_seen < 2000
           THEN /\ tlog[i].after.source = tlog[i].found.source
                /\ tlog[i].after.addr = tlog[i].found.addr
           ELSE /\ tlog[i].after.source = tlog[i].t.source
                /\ tlog[i].after.addr = tlog[i].t.addr

(* a TIS-B report came half a second after an ADS-B update and was skipped *)
C4_Witness ==
    \E i \in DOMAIN tlog :
        /\ tlog[i].known
        /\ tlog[i].found.addr[2] = "ADSBICAO"
        /\ tlog[i].t.addr[2] = "TISBICAO"
        /\ clock - tlog[i].found.last_seen = 500
        /\ tlog[i].skipped
        /\ tlog[i].after = tlog[i].found

(* the Report::Traffic among the reports q, and how many are for ICAO k *)
TrafficReportsOf(q) == SelectSeq(q, LAMBDA r : r.kind = "Traffic")

CountFor(reps, k) ==
    Cardinality({i \in DOMAIN reps : reps[i].target.addr[1] = k})

(* the field is present and its stamp is at most ms old at now *)
StampWithin(field, now, ms) ==
    IsSome(field) /\ now - Unwrap(field)[Len(Unwrap(field))] <= ms

(* one of the four stamps of the target is within 6 s (6000 ms) of now *)
FreshWithin6s(v, now) ==
    \/ StampWithin(v.altitude, now, 6000)
    \/ StampWithin(v.heading, now, 6000)
    \/ StampWithin(v.speed, now, 6000)
    \/ StampWithin(v.lat_lon, now, 6000)

(* C6: once per second, that is on every tick whose number is a multiple   *)
(* of freq, Traffic::run pushes exactly one Report::Traffic for each target *)
(* of the map that has one of altitude, heading, speed, lat_lon stamped     *)
(* within 6 s of the clock of the tick, and none for a target whose four    *)
(* stamps are all absent or older than 6 s; on the other ticks it pushes    *)
(* no traffic report.                                                       *)
C6_EmitsFreshTargetsOncePerSecond ==
    pc = "protocols" =>
        LET reps == TrafficReportsOf(pushed.processors)
        IN IF ticks % freq = 0
           THEN /\ \A i \in DOMAIN reps :
                      reps[i].target.addr[1] \in DOMAIN situation
                /\ \A k \in DOMAIN situation :
                      CountFor(reps, k)
                        = IF FreshWithin6s(situation[k], clock) THEN 1 ELSE 0
           ELSE reps = <<>>

(* a target whose only stamps are between 6 s and 7 s old is pushed *)
C6_Witness ==
    /\ pc = "protocols"
    /\ \E i \in DOMAIN pushed.processors :
          /\ pushed.processors[i].kind = "Traffic"
          /\ ~FreshWithin6s(pushed.processors[i].target, clock)

----------------------------------------------------------------------------
(* Properties of the GDL 90 traffic message, checked under SpecTraffic *)

(* the stamped field, dropped when its stamp is more than 6 s older than now *)
Unexpired(field, now) == IF StampWithin(field, now, 6000) THEN field ELSE None

(* the target with every stamped field older than 6 s made absent *)
Expire(e, now) ==
    [e EXCEPT !.lat_lon = Unexpired(e.lat_lon, now),
              !.altitude = Unexpired(e.altitude, now),
              !.heading = Unexpired(e.heading, now),
              !.speed = Unexpired(e.speed, now),
              !.vs = Unexpired(e.vs, now)]

(* C7: the traffic message GDL90::run pushes for a report encodes every    *)
(* stamped field (lat/lon, altitude, heading, speed, vertical speed) whose  *)
(* stamp is more than 6 s older than the clock of the tick exactly as it    *)
(* encodes that field when it is absent: the payload is the payload of the  *)
(* same target with those fields absent.                                    *)
C7_StaleFieldsAreSentinels ==
    pc = "transports" =>
        \A i \in DOMAIN seen.protocols :
            seen.protocols[i].kind = "Traffic"
            => pushed.protocols[i]
                 = generate_traffic(Expire(seen.protocols[i].target, clock),
                                    clock, pres_alt_valid)

(* a traffic message whose target has an altitude stamped 7 s or more      *)
(* before the tick and a fresh heading: the altitude field reads 0x000 and *)
(* not 0xFFF                                                               *)
C7_Witness ==
    /\ pc = "transports"
    /\ \E i \in DOMAIN seen.protocols :
          LET e == seen.protocols[i].target
              p == pushed.protocols[i].payload
          IN /\ IsSome(e.altitude)
             /\ clock - Unwrap(e.altitude)[3] >= 7000
             /\ StampWithin(e.heading, clock, 6000)
             /\ p[13] = 0
             /\ p[14] \div 16 = 0

----------------------------------------------------------------------------
(* SpecAging: Pitot at 1 Hz with no transport linked, over a long run with *)
(* ticks that overrun                                                      *)

MaxTicksAging == 10
MaxFedAging == 2

StepsAging == {1000, 30000}

BatchesAging == {<<>>, <<TrafficItem(AdsbVelocity(10597059))>>}

InitAging == PitotNew(1, <<>>, {}, FALSE)

NextAging ==
    \/ NewHandle(StepsAging, {0}, MaxTicksAging)
    \/ RunSensors(BatchesAging, MaxFedAging)
    \/ RunProcessors
    \/ RunProtocols
    \/ RunTransports({Quiet})

SpecAging == InitAging /\ [][NextAging]_vars

(* the state between two ticks: the transports of a tick have run *)
EndOfTick == pc = "handle" /\ ticks > 0

(* C5, as stated: at the end of every tick, no ICAO whose last accepted    *)
(* report is 60 s (60000 ms) old or older is in the traffic map.           *)
C5_AbsentAfter60s ==
    EndOfTick =>
        \A k \in DOMAIN situation : clock - situation[k].last_seen < 60000

(* C5, amended: the cleanup pass runs once every floor(freq / 0.1) ticks   *)
(* (the counter never reaches that number between two ticks), and at the   *)
(* end of every tick in which it ran no ICAO whose last accepted report is *)
(* 60 s old or older is in the traffic map; in between, such an ICAO stays *)
(* in the map.                                                             *)
C5_AbsentAfterCleanupPass ==
    /\ cleanup_counter < F32Quot(freq, CLEANUP_FREQ)
    /\ (EndOfTick /\ cleanup_counter = 0)
       => \A k \in DOMAIN situation : clock - situation[k].last_seen < 60000

(* a cleanup pass has emptied the map after reports had been accepted *)
C5_Witness ==
    /\ EndOfTick
    /\ cleanup_counter = 0
    /\ nfed > 0
    /\ situation = <<>>

----------------------------------------------------------------------------
(* SpecUdp: Pitot at 2 Hz with the UDP transport, the protocols pushing    *)
(* payloads of chosen sizes                                                *)

Blob(n, b) == [i \in 1..n |-> b]

Immediate(n) == [queueable |-> FALSE, payload |-> Blob(n, 20)]
Queueable(n) == [queueable |-> TRUE, payload |-> Blob(n, 7)]

MaxTicksUdp == 3
MaxFedUdp == 6

StepsUdp == {500, 10500, 30000}

BatchesUdp ==
    {<<>>,
     <<Immediate(32)>>,
     <<Immediate(736), Immediate(736), Immediate(32)>>,
     <<Queueable(440), Immediate(1472), Queueable(440), Queueable(440)>>,
     <<Queueable(1000), Immediate(1000)>>}

EnvsUdp ==
    {Quiet,
     [lease |-> Some({1, 2}), refusing |-> {}, replies |-> {1, 2}],
     [lease |-> None, refusing |-> {1}, replies |-> {1, 2}]}

InitUdp == PitotNew(2, <<"UDP">>, {1}, FALSE)

NextUdp ==
    \/ NewHandle(StepsUdp, {0}, MaxTicksUdp)
    \/ RunSensors({<<>>}, nfed)
    \/ RunProcessors
    \/ RunAnyProtocol(BatchesUdp, MaxFedUdp)
    \/ RunTransports(EnvsUdp)

SpecUdp == InitUdp /\ [][NextUdp]_vars


----------------------------------------------------------------------------
(* Properties of the UDP transport, checked under SpecUdp *)

(* the payloads extended into the datagrams ds, in the order sent *)
RECURSIVE ChunksOf(_)
ChunksOf(ds) ==
    IF ds = <<>> THEN <<>> ELSE Head(ds).data \o ChunksOf(Tail(ds))

(* how often x occurs in the sequence q *)
Occurrences(q, x) == Cardinality({i \in DOMAIN q : q[i] = x})

(* the broadcasts of the tick that went to every client of the map *)
BroadcastsToAll ==
    SelectSeq(sent, LAMBDA d : d.kind = "broadcast" /\ d.to = DOMAIN clients)

(* C8: every non-queueable payload handed to UDP::run in a tick is part of *)
(* a datagram that the same run hands to the socket of every client of the *)
(* map, as often as it was handed; and the packing buffer is empty when    *)
(* the send phase of the run ends.                                         *)
C8_ImmediatePayloadsSentInTick ==
    /\ (pc = "transports" /\ transports # <<>>)
       => BufLen(SendPhase(queue, inactive_buffer, payload_queue,
                           freq).buffer) = 0
    /\ (EndOfTick /\ transports # <<>>)
       => \A i \in DOMAIN seen.transports :
             ~seen.transports[i].queueable
             => Occurrences(ChunksOf(BroadcastsToAll),
                            seen.transports[i].payload)
                >= Occurrences(seen.transports, seen.transports[i])

(* immediate payloads went out in two broadcasts to two clients *)
C8_Witness ==
    /\ EndOfTick
    /\ Cardinality(DOMAIN clients) = 2
    /\ \E i \in DOMAIN seen.transports : ~seen.transports[i].queueable
    /\ Len(BroadcastsToAll) >= 2

(* the payloads the transport holds or was handed in the tick *)
KnownPayloads ==
    {seen.transports[i].payload : i \in DOMAIN seen.transports}
    \cup {inactive_buffer[i].payload : i \in DOMAIN inactive_buffer}

(* C9: every datagram UDP::run sends, in a broadcast or in a replay, is    *)
(* the concatenation of one or more whole payloads, is not empty and is at *)
(* most 1472 bytes long, given that no payload is longer than 1472 bytes.  *)
C9_DatagramsWholeAndBounded ==
    \A i \in DOMAIN sent :
        /\ sent[i].data # <<>>
        /\ \A j \in DOMAIN sent[i].data : sent[i].data[j] \in KnownPayloads
        /\ BufLen(sent[i].data) > 0
        /\ BufLen(sent[i].data) <= 1472
        /\ Len(BufBytes(sent[i].data)) = BufLen(sent[i].data)

(* a tick with a broadcast of exactly 1472 bytes and a replay datagram of  *)
(* several payloads                                                         *)
C9_Witness ==
    /\ \E i \in DOMAIN sent :
          sent[i].kind = "broadcast" /\ BufLen(sent[i].data) = 1472
    /\ \E i \in DOMAIN sent :
          sent[i].kind = "replay" /\ Len(sent[i].data) >= 2


----------------------------------------------------------------------------
(***************************************************************************)
(* SpecDrain: the pipeline of main.rs at 10 Hz with the UDP transport and  *)
(* one client.  The protocol of the first tick pushes 50 queueable         *)
(* payloads of one size; later ticks push no queueable payload, and now    *)
(* and then an immediate one.                                              *)
(***************************************************************************)
MaxTicksDrain == 24
MaxFedDrain == 53

SizesDrain == {32, 440, 736, 737, 1472}

LoadsDrain == {[i \in 1..50 |-> Queueable(s)] : s \in SizesDrain}

InitDrain == PitotNew(10, <<"UDP">>, {1}, FALSE)

NextDrain ==
    \/ NewHandle({100}, {0}, MaxTicksDrain)
    \/ RunSensors({<<>>}, nfed)
    \/ RunProcessors
    \/ RunAnyProtocol(IF ticks = 1 THEN LoadsDrain
                      ELSE {<<>>, <<Immediate(32)>>}, MaxFedDrain)
    \/ RunTransports({Quiet})

SpecDrain == InitDrain /\ [][NextDrain]_vars

(* the queueable payloads the tick has popped from the queue and sent *)
Drained ==
    Cardinality({i \in DOMAIN ChunksOf(sent) :
                    \E j \in DOMAIN inactive_buffer :
                       inactive_buffer[j].payload = ChunksOf(sent)[i]})

(* |queue| when the drain of the tick began *)
QueuedBefore == Len(queue) + Drained

CeilDiv(a, b) == (a + b - 1) \div b

(* two payloads of the load fit one datagram *)
TwoFit ==
    \E j \in DOMAIN inactive_buffer :
       2 * Len(inactive_buffer[j].payload) <= UDP_MAX_SIZE

(* C10 as stated: from 50 queued items at 10 Hz and with no queueable      *)
(* ingress the queue is empty after exactly 10 ticks, and every tick       *)
(* drains ceil(|queue|/freq) items.                                        *)
C10_DrainsInExactlyTenTicks ==
    (EndOfTick /\ inactive_buffer # <<>>)
    => /\ (queue = <<>>) <=> (ticks >= 10)
       /\ Drained = CeilDiv(QueuedBefore, freq)

(* C10: from 50 queued items at 10 Hz and with no queueable ingress every  *)
(* tick pops at least ceil(|queue|/freq) items, and exactly that many when *)
(* no two payloads fit one datagram; the queue is empty after at most 22   *)
(* ticks, and after exactly 22 when no two payloads fit one datagram.      *)
C10_DrainsWithinTwentyTwoTicks ==
    (EndOfTick /\ inactive_buffer # <<>>)
    => /\ Drained >= CeilDiv(QueuedBefore, freq)
       /\ Drained <= QueuedBefore
       /\ ~TwoFit => Drained = CeilDiv(QueuedBefore, freq)
       /\ ticks >= 22 => queue = <<>>
       /\ (~TwoFit /\ ticks < 22) => queue # <<>>

(* the third tick has drained 4 of the 40 items left by 5 and 5 *)
C10_Witness ==
    /\ EndOfTick
    /\ ticks = 3
    /\ QueuedBefore = 40
    /\ Drained = 4
    /\ Len(queue) = 36


----------------------------------------------------------------------------
(***************************************************************************)
(* Spec: the whole pipeline at 2 Hz: the sensors push traffic and FIS-B    *)
(* items, Traffic and FISB process them, GDL90 encodes the reports and     *)
(* UDP sends the payloads to its clients.                                  *)
(***************************************************************************)
FISBItem(p) == [kind |-> "FISB", payload |-> p]

MaxTicks == 3
MaxFed == 3

Steps == {500}

Batches ==
    {<<>>,
     <<TrafficItem(AdsbPosition(10597059))>>,
     <<TrafficItem(AdsbVelocity(10597059))>>,
     <<FISBItem(Blob(432, 125))>>,
     <<FISBItem(Blob(432, 0)), TrafficItem(TisbPosition(11259375))>>}

Envs ==
    {Quiet,
     [lease |-> None, refusing |-> {1}, replies |-> {1}]}

Init == PitotNew(2, <<"UDP">>, {1}, FALSE)

Next ==
    \/ NewHandle(Steps, {66049}, MaxTicks)
    \/ RunSensors(Batches, MaxFed)
    \/ RunProcessors
    \/ RunProtocols
    \/ RunTransports(Envs)

Spec == Init /\ [][Next]_vars

(* C1: within a tick the stages run in the order sensors, processors,      *)
(* protocols, transports, one at a time; every processor sees in tick N    *)
(* exactly the items the sensors pushed in tick N, every protocol exactly  *)
(* the reports the processors pushed in tick N and every transport exactly *)
(* the payloads the protocols pushed in tick N, so that no stage sees an   *)
(* item in a later tick.                                                   *)
C1_StagesInOrderWithinTick ==
    /\ [][/\ pc = "handle" => pc' = "sensors"
          /\ pc = "sensors" => pc' = "processors"
          /\ pc = "processors" => pc' = "protocols"
          /\ pc = "protocols" => pc' = "transports"
          /\ pc = "transports" => pc' = "handle" /\ ticks' = ticks]_vars
    /\ [](EndOfTick => /\ seen.processors = pushed.sensors
                       /\ seen.protocols = pushed.processors
                       /\ seen.transports = pushed.protocols)

(* a tick after the first in which an item went through all four stages *)
C1_Witness ==
    /\ EndOfTick
    /\ ticks >= 2
    /\ pushed.sensors # <<>>
    /\ seen.protocols # <<>>
    /\ \E i \in DOMAIN seen.transports : seen.transports[i].queueable
    /\ sent # <<>>

(* C2: when a tick ends, after the transports have run, the sensor queue,  *)
(* the report queue and the payload queue are empty, whatever the sensors, *)
(* the processors and the protocols pushed in the tick.                    *)
C2_QueuesEmptyAtEndOfTick ==
    EndOfTick => /\ sensor_queue = <<>>
                 /\ report_queue = <<>>
                 /\ payload_queue = <<>>

(* a tick in which every one of the three queues held something *)
C2_Witness ==
    /\ EndOfTick
    /\ Len(pushed.sensors) >= 2
    /\ Len(pushed.processors) >= 2
    /\ Len(pushed.protocols) >= 3
    /\ sensor_queue = <<>>
    /\ report_queue = <<>>
    /\ payload_queue = <<>>


----------------------------------------------------------------------------
(***************************************************************************)
(* SpecLoad: the UDP transport at 2 Hz or 3 Hz under a protocol that       *)
(* pushes up to MaxIngress queueable payloads in every tick, more than     *)
(* freq of them, and then stops.                                           *)
(***************************************************************************)
MaxTicksLoad == 7
MaxFedLoad == 16
MaxIngress == 4

BatchesLoad ==
    {[i \in 1..k |-> Queueable(1000)] : k \in 0..MaxIngress}
    \cup {[i \in 1..MaxIngress |-> Queueable(440)]}

InitLoad == \E f \in {2, 3} : PitotNew(f, <<"UDP">>, {1}, FALSE)

NextLoad ==
    \/ NewHandle({500}, {0}, MaxTicksLoad)
    \/ RunSensors({<<>>}, nfed)
    \/ RunProcessors
    \/ RunAnyProtocol(BatchesLoad, MaxFedLoad)
    \/ RunTransports({Quiet})

SpecLoad == InitLoad /\ [][NextLoad]_vars

(* the queueable payloads among the payloads q *)
QueueableOf(q) == SelectSeq(q, LAMBDA p : p.queueable)

(* C11: with at most MaxIngress queueable payloads handed to UDP::run in   *)
(* every tick, more than freq of them, the queue never holds more than     *)
(* MaxIngress * freq payloads; and a run that is handed no queueable       *)
(* payload while the queue is not empty leaves the queue strictly shorter. *)
C11_QueueBoundedAndDraining ==
    /\ [](Len(queue) <= MaxIngress * freq)
    /\ [][(pc = "transports" /\ QueueableOf(payload_queue) = <<>>
           /\ queue # <<>>)
          => Len(queue') < Len(queue)]_vars

(* at 3 Hz the queue stands at 6 after a run that was handed 4 payloads,   *)
(* after ticks of sustained load                                           *)
C11_Witness ==
    /\ EndOfTick
    /\ freq = 3
    /\ ticks >= 4
    /\ Len(QueueableOf(seen.transports)) = MaxIngress
    /\ Len(queue) = 6

(* the queue has run empty in a tick without ingress *)
C11_Drained ==
    /\ EndOfTick
    /\ QueueableOf(seen.transports) = <<>>
    /\ Len(inactive_buffer) >= 2 * MaxIngress
    /\ queue = <<>>
    /\ sent # <<>>


----------------------------------------------------------------------------
(* Properties of the replay, checked under SpecUdp *)

(* the payloads the datagrams ds carry to the client ip alone *)
ReplayedTo(ds, ip) ==
    ChunksOf(SelectSeq(ds, LAMBDA d : d.kind = "replay" /\ d.to = {ip}))

(* the payloads of inactive_buffer, oldest first *)
OldestFirst(ib) == [i \in 1..Len(ib) |-> ib[Len(ib) + 1 - i].payload]

(* C12: in every run of the transport, a client whose in_app goes from     *)
(* false to true and whose last_replay is 30 s or more before the clock of *)
(* the tick is sent, alone, every payload of inactive_buffer exactly once, *)
(* oldest first, and its last_replay becomes the clock of the tick; every  *)
(* other client is sent no replay and keeps its last_replay.  This holds   *)
(* for each client when several qualify in the same tick.                  *)
C12_ReplayOnceOldestFirst ==
    [][pc = "transports"
       => \A ip \in DOMAIN clients \cap DOMAIN clients' :
             IF /\ ~clients[ip].in_app
                /\ clients'[ip].in_app
                /\ clock - clients[ip].last_replay >= 30000
             THEN /\ ReplayedTo(sent', ip) = OldestFirst(inactive_buffer')
                  /\ clients'[ip].last_replay = clock
             ELSE /\ ReplayedTo(sent', ip) = <<>>
                  /\ clients'[ip].last_replay = clients[ip].last_replay]_vars

(* two clients were replayed to in one tick, and one of them was sent more *)
(* payloads than inactive_buffer holds                                     *)
C12_Witness ==
    /\ EndOfTick
    /\ inactive_buffer # <<>>
    /\ \E a, b \in DOMAIN clients :
          /\ a # b
          /\ ReplayedTo(sent, a) = OldestFirst(inactive_buffer)
          /\ Len(ReplayedTo(sent, b)) > Len(inactive_buffer)


(* C13: after the reconcile of every tick each client has                  *)
(* active = (now - last_reply <= 10 s) and                                 *)
(* in_app = (active and now - last_refused >= 5 s), so that a client that  *)
(* is not active is not in_app.                                            *)
C13_ActiveAndInAppAfterReconcile ==
    EndOfTick
    => \A ip \in DOMAIN clients :
          /\ clients[ip].active = (clock - clients[ip].last_reply <= 10000)
          /\ clients[ip].in_app
               = (clients[ip].active
                  /\ clock - clients[ip].last_refused >= 5000)

(* a client that has gone silent for more than 11 s is not active and is   *)
(* still in_app                                                            *)
C13_Witness ==
    /\ EndOfTick
    /\ \E ip \in DOMAIN clients :
          /\ ~clients[ip].active
          /\ clients[ip].in_app
          /\ clock - clients[ip].last_reply >= 11000

(* a client whose last reply is between 10 s and 11 s old is still active  *)
C13_ActiveBeyondTenSeconds ==
    /\ EndOfTick
    /\ \E ip \in DOMAIN clients :
          /\ clients[ip].active
          /\ clock - clients[ip].last_reply > 10000


----------------------------------------------------------------------------
(* Properties of the GDL 90 protocol, checked under Spec *)

(* the message id of a payload: the byte after the opening flag *)
MessageId(p) == p.payload[2]

(* the positions of the payloads of q with message id id *)
WithId(q, id) == {i \in DOMAIN q : MessageId(q[i]) = id}

(* C14: GDL90::run pushes exactly one Heartbeat (id 0x00) followed by one  *)
(* ForeFlight ID (id 0x65), as its last two payloads, on every tick whose  *)
(* number is a multiple of freq, and neither of them on any other tick,    *)
(* whatever reports the tick brings.                                       *)
C14_HeartbeatOncePerSecond ==
    pc = "transports"
    => LET out == pushed.protocols
       IN IF ticks % freq = 0
          THEN /\ Len(out) >= 2
               /\ WithId(out, 0) = {Len(out) - 1}
               /\ WithId(out, 101) = {Len(out)}
          ELSE WithId(out, 0) = {} /\ WithId(out, 101) = {}

(* a heartbeat tick that also carried reports *)
C14_Witness ==
    /\ pc = "transports"
    /\ ticks % freq = 0
    /\ Len(seen.protocols) >= 2
    /\ Len(pushed.protocols) >= 4
    /\ MessageId(pushed.protocols[Len(pushed.protocols) - 1]) = 0

----------------------------------------------------------------------------
(* SpecOwnship: Pitot at 1, 2 or 4 Hz with no transport linked, fed GNSS   *)
(* fixes, barometer readings, traffic and FIS-B                            *)

(* a Fix of src/sensor/gnss/mod.rs: acc is the horizontal accuracy in mm,  *)
(* if any; heights in mm, ground speed in mm/s, course in degrees          *)
Fix(acc, lat, lon, msl, hae, gs, crs) ==
    [quality |-> "ThreeDim", num_sv |-> 8,
     lat_lon |-> <<<<lat, lon>>, acc>>,
     height_msl |-> <<msl, None>>,
     height_ellipsoid |-> <<hae, None>>,
     gs |-> <<gs, None>>,
     true_course |-> <<crs, None>>,
     mag_dec |-> None]

(* SensorData::GNSS(GNSSData::TimeFix { time, fix }) *)
TimeFix(time, fix) == [kind |-> "TimeFix", time |-> time, fix |-> fix]

(* SensorData::Baro(b) *)
Baro(b) == [kind |-> "Baro", b |-> b]

(* 37.5 N 122.25 W, 1000 m MSL, 970 m HAE, 51.444 m/s on course 90 *)
FixA == Fix(Some(2500), <<75, 1>>, <<-489, 2>>, 1000000, 970000, 51444, 90)

(* the same place with no accuracy estimate, 10 m lower and slower *)
FixB == Fix(None, <<75, 1>>, <<-489, 2>>, 990000, 960000, 30000, 270)

MaxTicksOwnship == 4
MaxFedOwnship == 3

BatchesOwnship ==
    {<<>>,
     <<TimeFix(None, Some(FixA))>>,
     <<TimeFix(Some(0), None)>>,
     <<Baro(3000)>>,
     <<TimeFix(Some(0), Some(FixA)), Baro(3000)>>,
     <<Baro(3000), TimeFix(None, Some(FixB))>>,
     <<TrafficItem(AdsbPosition(10597059))>>,
     <<FISBItem(Blob(432, 125))>>,
     <<FISBItem(Blob(432, 0)), TimeFix(None, Some(FixB))>>}

InitOwnship == \E f \in {1, 2, 4} : PitotNew(f, <<>>, {}, FALSE)

NextOwnship ==
    \/ NewHandle({500}, {0}, MaxTicksOwnship)
    \/ RunSensors(BatchesOwnship, MaxFedOwnship)
    \/ RunProcessors
    \/ RunProtocols
    \/ RunTransports({Quiet})

SpecOwnship == InitOwnship /\ [][NextOwnship]_vars

(* the Ownship reports of a queue of reports *)
OwnshipReportsOf(q) == SelectSeq(q, LAMBDA r : r.kind = "Ownship")

(* the payloads of q with message id 0x0A or 0x0B *)
OwnshipPayloadsOf(q) ==
    SelectSeq(q, LAMBDA p : MessageId(p) = 10 \/ MessageId(p) = 11)

(* C15: GDL90::run turns an Ownship report into payloads only when         *)
(* ownship_counter, incremented once at the start of the run, is at least  *)
(* freq / 2; it then pushes exactly the pair 0x0A, 0x0B made from that     *)
(* report, takes ownship_valid from it, sets pres_alt_valid if it carries  *)
(* a pressure altitude, and resets the counter; a report that does not     *)
(* fire pushes nothing and leaves the state of the protocol alone; and     *)
(* for freq >= 2 at most one pair is pushed per tick.                      *)
C15_OwnshipThrottled ==
    [][pc = "protocols" =>
         LET owns == OwnshipReportsOf(report_queue)
             out == OwnshipPayloadsOf(pushed'.protocols)
             fires == owns # <<>> /\ ownship_counter + 1 >= freq \div 2
             used == IF freq >= 2 THEN owns[1] ELSE owns[Len(owns)]
         IN /\ \A i \in DOMAIN out :
                 MessageId(out[i]) = IF i % 2 = 1 THEN 10 ELSE 11
            /\ freq >= 2 => Len(out) <= 2
            /\ freq < 2 => Len(out) = 2 * Len(owns)
            /\ fires =>
                 /\ Len(out) >= 2
                 /\ freq >= 2 =>
                      out = <<generate_ownship(used.o),
                              generate_ownship_geometric_altitude(used.o)>>
                 /\ ownship_counter' = 0
                 /\ ownship_valid' = used.o.valid
                 /\ pres_alt_valid' =
                      (pres_alt_valid \/ IsSome(used.o.pressure_altitude))
            /\ ~fires =>
                 /\ out = <<>>
                 /\ ownship_counter' = ownship_counter + 1
                 /\ ownship_valid' = ownship_valid
                 /\ pres_alt_valid' = pres_alt_valid]_vars

(* at 4 Hz the second tick is handed two Ownship reports and has pushed   *)
(* one pair                                                                *)
C15_Witness ==
    /\ pc = "transports"
    /\ freq = 4
    /\ ticks = 2
    /\ Len(OwnshipReportsOf(seen.protocols)) = 2
    /\ Len(OwnshipPayloadsOf(pushed.protocols)) = 2
    /\ ownship_counter = 0
    /\ ownship_valid
    /\ pres_alt_valid


(* the message ids GDL90::run produces: Heartbeat, Uplink, Ownship,        *)
(* Ownship Geometric Altitude, Traffic, ForeFlight ID                      *)
ProducedIds == {0, 7, 10, 11, 20, 101}

(* C16: of the payloads GDL90::run pushes, those with id 0x07 (uplink),    *)
(* one for each FISB report handed to it, are queueable, and every         *)
(* heartbeat (0x00), ForeFlight ID (0x65), ownship (0x0A), ownship         *)
(* geometric altitude (0x0B) and traffic (0x14) payload is not.            *)
C16_OnlyUplinkQueueable ==
    pc = "transports" =>
        /\ \A i \in DOMAIN pushed.protocols :
              /\ MessageId(pushed.protocols[i]) \in ProducedIds
              /\ pushed.protocols[i].queueable
                    = (MessageId(pushed.protocols[i]) = 7)
        /\ Len(QueueableOf(pushed.protocols))
              = Len(SelectSeq(seen.protocols, LAMBDA r : r.kind = "FISB"))

(* a tick whose protocol run has pushed an uplink, a heartbeat with the    *)
(* ForeFlight ID, and the ownship pair                                     *)
C16_Witness ==
    /\ pc = "transports"
    /\ \A id \in {0, 7, 10, 11, 101} : WithId(pushed.protocols, id) # {}

(* a tick whose protocol run has pushed a traffic payload *)
C16_WitnessTraffic ==
    /\ pc = "transports"
    /\ WithId(pushed.protocols, 20) # {}


(* the item is a GNSS TimeFix that carries a fix *)
CarriesFix(e) == e.kind = "TimeFix" /\ IsSome(e.fix)

(* the positions in the sensor items q of those Ownship::run reports on *)
ReportingItems(q) == {j \in DOMAIN q : OwnshipReports(q[j])}

(* the position in q of the item behind the i-th Ownship report *)
ReportingItem(q, i) ==
    CHOOSE j \in ReportingItems(q) :
        Cardinality({k \in ReportingItems(q) : k <= j}) = i

(* C17: Ownship.valid is false when the pipeline starts, becomes true in   *)
(* Ownship::run exactly when a TimeFix that carries a fix is processed and *)
(* never goes back; each Ownship report carries valid = true if and only   *)
(* if a fix was processed before it or makes it, whatever else was fed     *)
(* (Baro readings, TimeFix without a fix).                                 *)
C17_ValidOnceFixed ==
    /\ ticks = 0 => ~ownship.valid
    /\ [][/\ pc # "processors" => ownship'.valid = ownship.valid
          /\ pc = "processors" =>
               LET reps == OwnshipReportsOf(pushed'.processors)
               IN /\ ownship'.valid =
                       (ownship.valid
                        \/ \E j \in DOMAIN sensor_queue :
                              CarriesFix(sensor_queue[j]))
                  /\ Len(reps) = Cardinality(ReportingItems(sensor_queue))
                  /\ \A i \in DOMAIN reps :
                        reps[i].o.valid =
                          (ownship.valid
                           \/ \E j \in 1..ReportingItem(sensor_queue, i) :
                                 CarriesFix(sensor_queue[j]))]_vars

(* after a fix in an earlier tick, a tick fed a Baro reading alone has     *)
(* reported an Ownship that is still valid                                 *)
C17_Witness ==
    /\ pc = "protocols"
    /\ seen.processors = <<Baro(3000)>>
    /\ Len(OwnshipReportsOf(report_queue)) = 1
    /\ report_queue[1].o.valid
    /\ ownship.valid

(* before any fix, a Baro reading has reported an Ownship that is not valid *)
C17_WitnessBefore ==
    /\ pc = "protocols"
    /\ Len(OwnshipReportsOf(report_queue)) = 1
    /\ ~report_queue[1].o.valid
    /\ ~ownship.valid


----------------------------------------------------------------------------
(* SpecNacp: Pitot at 2 Hz with no transport linked, fed GNSS fixes whose  *)
(* horizontal accuracy is on either side of every step of the table        *)

MaxTicksNacp == 2
MaxFedNacp == 2

(* horizontal accuracies in mm: around each threshold, 0, and one beyond   *)
(* the last step                                                           *)
AccuraciesNacp ==
    {0, 2999, 3000, 9999, 10000, 29999, 30000, 92599, 92600, 185199, 185200,
     555599, 555600, 9000000}

(* a fix with the horizontal accuracy acc, if any *)
FixWith(acc) == Fix(acc, <<75, 1>>, <<-489, 2>>, 1000000, 970000, 51444, 90)

BatchesNacp ==
    {<<>>, <<TimeFix(None, Some(FixWith(None)))>>, <<Baro(3000)>>}
    \cup {<<TimeFix(Some(0), Some(FixWith(Some(a))))>> : a \in AccuraciesNacp}

InitNacp == PitotNew(2, <<>>, {}, FALSE)

NextNacp ==
    \/ NewHandle({500}, {0}, MaxTicksNacp)
    \/ RunSensors(BatchesNacp, MaxFedNacp)
    \/ RunProcessors
    \/ RunProtocols
    \/ RunTransports({Quiet})

SpecNacp == InitNacp /\ [][NextNacp]_vars

(* the table of the specification, on the accuracy a in mm *)
NacpTable(a) ==
    IF a < 3000 THEN 11
    ELSE IF a < 10000 THEN 10
    ELSE IF a < 30000 THEN 9
    ELSE IF a < 92600 THEN 8
    ELSE IF a < 185200 THEN 7
    ELSE IF a < 555600 THEN 6
    ELSE 0

(* the last item of q that carries a fix *)
LastFix(q) ==
    LET j == CHOOSE j \in DOMAIN q :
                 /\ CarriesFix(q[j])
                 /\ \A k \in DOMAIN q : k > j => ~CarriesFix(q[k])
    IN Unwrap(q[j].fix)

(* C18: after Ownship::run has processed a GNSS fix, ownship has nic = 9   *)
(* and nacp as the stepwise table gives it for the horizontal accuracy a   *)
(* of the fix in mm (a < 3000: 11, < 10000: 10, < 30000: 9, < 92600: 8,    *)
(* < 185200: 7, < 555600: 6, otherwise 0), and nic = 0 and nacp = 0 when   *)
(* the fix has no horizontal accuracy.                                     *)
C18_NicNacpByTable ==
    [][(pc = "processors"
        /\ \E j \in DOMAIN sensor_queue : CarriesFix(sensor_queue[j])) =>
          LET acc == LastFix(sensor_queue).lat_lon[2]
          IN IF IsSome(acc)
             THEN /\ ownship'.nic = 9
                  /\ ownship'.nacp = NacpTable(Unwrap(acc))
             ELSE /\ ownship'.nic = 0
                  /\ ownship'.nacp = 0]_vars

(* a fix accurate to 92.599 m has been processed: nacp 8, one mm short of  *)
(* the step to 7                                                           *)
C18_Witness ==
    /\ pc = "protocols"
    /\ seen.processors = <<TimeFix(Some(0), Some(FixWith(Some(92599))))>>
    /\ ownship.nic = 9
    /\ ownship.nacp = 8

(* a fix with no horizontal accuracy has been processed after one with *)
C18_WitnessNone ==
    /\ pc = "protocols"
    /\ ticks = 2
    /\ seen.processors = <<TimeFix(None, Some(FixWith(None)))>>
    /\ ownship.nic = 0
    /\ ownship.nacp = 0
    /\ ownship_valid


----------------------------------------------------------------------------
(* SpecTwin: Pitot at 2 Hz with no transport linked, and a second run that *)
(* is fed the same items at the same monotonic instants but reads another  *)
(* wall clock; the GNSS times fed make Clock::run set the system clock in  *)
(* both runs, or in one of them only                                       *)

MaxTicksTwin == 3
MaxFedTwin == 2

StepsTwin == {500, 6500}

UtcsTwin == {0, 66049}

BatchesTwin ==
    {<<>>,
     <<TrafficItem(AdsbPosition(10597059))>>,
     <<TrafficItem(AdsbVelocity(10597059))>>,
     <<TimeFix(Some(1000), None)>>,
     <<TimeFix(Some(1), None), TrafficItem(TisbPosition(11259375))>>}

InitTwin == PitotNewTwin(2, <<>>, {}, FALSE, TRUE)

NextTwin ==
    \/ NewHandle(StepsTwin, UtcsTwin, MaxTicksTwin)
    \/ RunSensors(BatchesTwin, MaxFedTwin)
    \/ RunProcessors
    \/ RunProtocols
    \/ RunTransports({Quiet})

SpecTwin == InitTwin /\ [][NextTwin]_vars

(* the payloads of q with message id 0x14, Traffic Report *)
TrafficPayloadsOf(q) == SelectSeq(q, LAMBDA p : MessageId(p) = 20)

----------------------------------------------------------------------------
(* SpecChannel: Pitot at 2 Hz with the ES and UAT sensors linked, a        *)
(* protocol that pushes nothing and no transport; the I/O thread of each   *)
(* sensor sends on its channel at any moment, run_sensors drains the       *)
(* channels one value at a time                                            *)

MaxTicksChannel == 2
MaxSentChannel == 2

(* a Frame of dump978 *)
Frame(ft, p) == [frame_type |-> ft, payload |-> p]

(* what the I/O thread of each sensor may send *)
ValuesChannel ==
    [s \in SensorNames |->
        IF s = "ES"
        THEN {AdsbPosition(10597059), AdsbVelocity(10597059)}
        ELSE {Frame("GroundUplink", Blob(432, 0)),
              Frame("GroundUplink", Blob(432, 125))}]

(* the I/O thread of a sensor: tx.send(item) *)
IoSend(values, maxSent) ==
    /\ \E s \in SensorNames :
          /\ Len(io_sent[s]) < maxSent
          /\ \E v \in values[s] :
                /\ chan' = [chan EXCEPT ![s] = ChannelSend(@, v)]
                /\ io_sent' = [io_sent EXCEPT ![s] = Append(@, v)]
    /\ UNCHANGED <<pc, ticks, handleVars, freq, transports, arg, ret, gnssVars, ran,
                   sensors, queueVars,
                   trafficVars, gdl90Vars, udpVars, ownshipVars, stepping,
                   drained, twin, nfed, pushed, seen, tlog, sent>>

(* Sensor::run of the sensor run_sensors is at: try_iter yields a value    *)
(* and the body of the loop pushes it                                      *)
SensorRecv ==
    /\ pc = "sensors"
    /\ ~TryIterEnds(chan[sensors[stepping]])
    /\ LET s == sensors[stepping]
           e == SensorPush(s, TryIterNext(chan[s]))
       IN /\ chan' = [chan EXCEPT ![s] = TryIterRest(@)]
          /\ sensor_queue' = Append(sensor_queue, e)
          /\ drained' = [drained EXCEPT ![s] = Append(@, e)]
          /\ pushed' = [pushed EXCEPT !.sensors = Append(@, e)]
    /\ nfed' = nfed + 1
    /\ UNCHANGED <<pc, ticks, handleVars, freq, transports, arg, ret, gnssVars, ran,
                   sensors, report_queue,
                   payload_queue, trafficVars, gdl90Vars, udpVars,
                   ownshipVars, stepping, io_sent, twin, seen, tlog, sent>>

(* Sensor::run of the sensor run_sensors is at: try_iter yields None, run  *)
(* returns, and run_sensors goes on to the next sensor or returns          *)
SensorDone ==
    /\ pc = "sensors"
    /\ TryIterEnds(chan[sensors[stepping]])
    /\ IF stepping < Len(sensors)
       THEN stepping' = stepping + 1 /\ pc' = pc
       ELSE stepping' = 1 /\ pc' = NextStage(pc)
    /\ UNCHANGED <<ticks, handleVars, freq, transports, arg, ret, gnssVars, ran,
                   sensors, queueVars,
                   trafficVars, gdl90Vars, udpVars, ownshipVars, chan,
                   io_sent, drained, twin, nfed, pushed, seen, tlog, sent>>

InitChannel == PitotNew(2, <<>>, {}, FALSE)

NextChannel ==
    \/ NewHandle({500}, {0}, MaxTicksChannel)
    \/ IoSend(ValuesChannel, MaxSentChannel)
    \/ SensorRecv
    \/ SensorDone
    \/ RunProcessors
    \/ RunAnyProtocol({<<>>}, nfed)
    \/ RunTransports({Quiet})

SpecChannel == InitChannel /\ [][NextChannel]_vars

(* what the run of sensor s pushes for the values vs, one by one *)
PushesFor(s, vs) == [i \in DOMAIN vs |-> SensorPush(s, vs[i])]

(* C20: under any interleaving of the sends of the I/O threads with the    *)
(* drain of run_sensors, what the run of a sensor has pushed so far,       *)
(* followed by what its channel still holds, is what its I/O thread has    *)
(* sent so far, in send order: no loss, no duplication, FIFO per channel;  *)
(* every push of a sensor's run appends to the sensor queue; when the run  *)
(* of a sensor returns, all that was sent to it has been pushed; and the   *)
(* drain can always take its next step, whatever the I/O threads do.       *)
C20_ChannelFifoNoLoss ==
    /\ [](\A s \in SensorNames :
             drained[s] \o PushesFor(s, chan[s]) = PushesFor(s, io_sent[s]))
    /\ [](pc = "sensors" => ENABLED (SensorRecv \/ SensorDone))
    /\ [][\A s \in SensorNames :
             /\ drained'[s] # drained[s] =>
                   /\ pc = "sensors" /\ s = Sensors[stepping]
                   /\ Len(drained'[s]) = Len(drained[s]) + 1
                   /\ sensor_queue' =
                        Append(sensor_queue, drained'[s][Len(drained'[s])])
             /\ (pc = "sensors" /\ s = Sensors[stepping]
                 /\ (stepping' # stepping \/ pc' # pc)) =>
                   drained'[s] = PushesFor(s, io_sent[s])]_vars

(* the ES thread has sent two values and the first run_sensors has pushed  *)
(* both in send order; the UAT thread has sent a frame after the run of    *)
(* UAT returned, which waits in its channel for the next tick              *)
C20_Witness ==
    /\ pc = "processors"
    /\ ticks = 1
    /\ io_sent["ES"] = <<AdsbPosition(10597059), AdsbVelocity(10597059)>>
    /\ sensor_queue = PushesFor("ES", io_sent["ES"])
    /\ Len(chan["UAT"]) = 1
    /\ drained["UAT"] = <<>>


----------------------------------------------------------------------------
(* SpecStartup: main builds a Pitot at 2 Hz, constructs the sensors against *)
(* whatever devices it finds and links those it gets, then runs the loop   *)

(* the elements of a sequence *)
Range(q) == {q[i] : i \in DOMAIN q}

(* the sensors main constructs, in order, and the place of main at each *)
MainSensors == <<"GNSS", "ES", "UAT">>
MainStages == <<"link_gnss", "link_es", "link_uat">>

(* what a constructor finds: present, the device is there (the serial port *)
(* opens, an SDR with the right serial is listed, the I2C bus opens);      *)
(* configures, it takes its settings; responds, the first UBX write goes   *)
(* through; accepts, so do the later ones; answers, the version poll is    *)
(* answered                                                                *)
Devices ==
    [present : BOOLEAN, configures : BOOLEAN, responds : BOOLEAN,
     accepts : BOOLEAN, answers : BOOLEAN]

(* the outcome of a sensor's new(): "Some", "None", "panic" for a failed   *)
(* unwrap or expect, "hang" for a loop that waits for a packet that never  *)
(* comes                                                                   *)
SensorNew(s, env) ==
    CASE s = "GNSS" ->
           IF ~env.present THEN "None"
           ELSE IF ~env.configures THEN "panic"
           ELSE IF ~env.responds THEN "None"
           ELSE IF ~env.accepts THEN "panic"
           ELSE IF ~env.answers THEN "hang"
           ELSE "Some"
      [] s \in {"ES", "UAT"} ->
           IF ~env.present THEN "None"
           ELSE IF ~env.configures THEN "panic"
           ELSE "Some"
      [] s = "Baro" ->
           IF ~env.present THEN "panic"
           ELSE IF ~env.configures THEN "None"
           ELSE "Some"

(* main at the i-th sensor: new(), and link_sensor on Some *)
LinkSensor(i, envs) ==
    /\ pc = MainStages[i]
    /\ \E env \in envs :
          LET r == SensorNew(MainSensors[i], env)
          IN /\ sensors' = IF r = "Some"
                           THEN Append(sensors, MainSensors[i])
                           ELSE sensors
             /\ pc' = CASE r = "panic" -> "panicked"
                        [] r = "hang" -> "hung"
                        [] OTHER -> IF i < Len(MainStages)
                                    THEN MainStages[i + 1]
                                    ELSE "handle"
    /\ UNCHANGED <<ticks, handleVars, freq, transports, arg, ret, gnssVars, ran,
                   queueVars,
                   trafficVars, gdl90Vars, udpVars, ownshipVars, chanVars,
                   twin, nfed, pushed, seen, tlog, sent>>

MaxTicksStartup == 2
MaxFedStartup == 2

(* what the linked sensors sn may push in a tick *)
BatchesStartup(sn) ==
    {<<>>}
    \cup {<<TimeFix(None, Some(FixA))>> : s \in {"GNSS"} \cap Range(sn)}
    \cup {<<TrafficItem(AdsbPosition(10597059))>> : s \in {"ES"} \cap Range(sn)}
    \cup {<<FISBItem(Blob(432, 125))>> : s \in {"UAT"} \cap Range(sn)}

InitStartup == PitotLinked(2, <<>>, {}, FALSE, FALSE, <<>>, MainStages[1])

NextStartup ==
    \/ \E i \in DOMAIN MainSensors : LinkSensor(i, Devices)
    \/ NewHandle({500}, {0}, MaxTicksStartup)
    \/ RunSensors(BatchesStartup(sensors), MaxFedStartup)
    \/ RunProcessors
    \/ RunProtocols
    \/ RunTransports({Quiet})

SpecStartup == InitStartup /\ [][NextStartup]_vars

(* the device is absent or the constructor of s fails on it *)
Unhealthy(s, env) ==
    CASE s = "GNSS" -> ~(env.present /\ env.configures /\ env.responds
                         /\ env.accepts /\ env.answers)
      [] OTHER -> ~(env.present /\ env.configures)

(* C21, as stated: when a sensor's device is absent or its initialization  *)
(* fails, its constructor returns None, it does not panic or hang, the     *)
(* sensor is not linked, and the pipeline runs with the rest.              *)
C21_FailedSensorIsSkipped ==
    /\ \A s \in {"GNSS", "ES", "UAT", "Baro"} : \A env \in Devices :
          Unhealthy(s, env) => SensorNew(s, env) = "None"
    /\ pc \notin {"panicked", "hung"}

(* the GNSS constructor returned None, ES and UAT are linked, and the loop *)
(* has run a tick without the GNSS                                         *)
C21_Witness ==
    /\ sensors = <<"ES", "UAT">>
    /\ ticks = 2
    /\ pc = "handle"

(* main has died in a constructor before the loop started *)
C21_Panicked == pc = "panicked" /\ ticks = 0


----------------------------------------------------------------------------
(* SpecLease: Pitot at 2 Hz with the UDP transport and one client; every   *)
(* tick brings an inotify event for the lease file, which is missing,      *)
(* unreadable or malformed on odd ticks and well-formed on even ticks      *)

(* a big-endian unsigned integer *)
RECURSIVE BeUint(_)
BeUint(bs) ==
    IF bs = <<>> THEN 0
    ELSE 256 * BeUint(SubSeq(bs, 1, Len(bs) - 1)) + bs[Len(bs)]

(* parse_ip_from_lease_file on the bytes buf at the wall clock wall: None  *)
(* when the parser does not return Done, which is when the 8 bytes of      *)
(* written or the 36 bytes of a record are cut short                       *)
ParseLease(buf, wall) ==
    IF Len(buf) < 8 \/ (Len(buf) - 8) % 36 # 0 THEN None
    ELSE LET written == BeUint(SubSeq(buf, 1, 8))
             at(k) == 8 + 36 * k
             expires(k) == BeUint(SubSeq(buf, at(k) + 1, at(k) + 4))
             ip(k) == BeUint(SubSeq(buf, at(k) + 5, at(k) + 8))
         IN Some({ip(k) : k \in {j \in 0..((Len(buf) - 8) \div 36 - 1) :
                                   wall < expires(j) + written}})

(* a lease file: whether File::open finds it, whether read_to_end reads    *)
(* it, and its bytes                                                       *)
LeaseFile(exists, readable, bytes) ==
    [exists |-> exists, readable |-> readable, bytes |-> bytes]

(* update_clients_list up to the parse: the set alive, or None when the    *)
(* function returns with the map as it was                                 *)
ReadLease(file, wall) ==
    IF ~file.exists \/ ~file.readable \/ file.bytes = <<>> THEN None
    ELSE ParseLease(file.bytes, wall)

(* (buf.len() - 8) / 36 underflows usize: a build with overflow checks     *)
(* panics there, one without wraps and goes on                             *)
CapUnderflows(file) ==
    file.exists /\ file.readable /\ Len(file.bytes) \in 1..7

(* UDP::run on a tick whose lease file makes update_clients_list panic in  *)
(* a build with overflow checks                                            *)
LeasePanics(files) ==
    /\ pc = "transports"
    /\ transports # <<>>
    /\ \E file \in files : CapUnderflows(file)
    /\ pc' = "panicked"
    /\ UNCHANGED <<ticks, handleVars, freq, transports, arg, ret, gnssVars, ran,
                   sensors, queueVars,
                   trafficVars, gdl90Vars, udpVars, ownshipVars, chanVars,
                   twin, nfed, pushed, seen, tlog, sent>>

(* the record of a lease for the address 0.0.0.d, expiring e seconds after *)
(* the file was written                                                    *)
LeaseRecord(d, e) == <<0, 0, 0, e, 0, 0, 0, d>> \o Blob(28, 0)

(* the file written at 10 s with the given records *)
LeaseBytes(records) == <<0, 0, 0, 0, 0, 0, 0, 10>> \o records

(* lease files that are missing, unreadable, empty, or cut short *)
BadFiles ==
    {LeaseFile(FALSE, FALSE, <<>>),
     LeaseFile(TRUE, FALSE, <<>>),
     LeaseFile(TRUE, TRUE, <<>>),
     LeaseFile(TRUE, TRUE, <<0, 0, 0, 0>>),
     LeaseFile(TRUE, TRUE, LeaseBytes(SubSeq(LeaseRecord(2, 100), 1, 20)))}

(* well-formed lease files: clients 1 and 2, client 2 alone, no lease *)
GoodFiles ==
    {LeaseFile(TRUE, TRUE, LeaseBytes(LeaseRecord(1, 100) \o LeaseRecord(2, 100))),
     LeaseFile(TRUE, TRUE, LeaseBytes(LeaseRecord(2, 100))),
     LeaseFile(TRUE, TRUE, LeaseBytes(<<>>))}

FilesLease(n) == IF n % 2 = 1 THEN BadFiles ELSE GoodFiles

(* what the tick finds outside: the lease file, every client answering *)
EnvsLease(files, wall) ==
    {[lease |-> ReadLease(file, wall), refusing |-> {}, replies |-> {1, 2}] :
        file \in files}

MaxTicksLease == 4
MaxFedLease == 4

InitLease == PitotNew(2, <<"UDP">>, {1}, FALSE)

NextLease ==
    \/ NewHandle({500}, {0, 200}, MaxTicksLease)
    \/ RunSensors({<<>>}, nfed)
    \/ RunProcessors
    \/ RunAnyProtocol({<<>>, <<Immediate(32)>>}, MaxFedLease)
    \/ RunTransports(EnvsLease(FilesLease(ticks), utc))
    \/ LeasePanics(FilesLease(ticks))

SpecLease == InitLease /\ [][NextLease]_vars

(* C22, as stated: when the lease file of the tick is missing, unreadable  *)
(* or does not parse, UDP::run leaves the clients of the map as they were, *)
(* goes on to send the payloads of the tick to them, and returns, so that  *)
(* the next event is handled.                                              *)
C22_BadLeaseFileKeepsClients ==
    [][(pc = "transports" /\ ticks % 2 = 1) =>
          /\ DOMAIN clients' = DOMAIN clients
          /\ \A i \in DOMAIN sent' :
                sent'[i].kind = "broadcast" => sent'[i].to = DOMAIN clients
          /\ \A j \in DOMAIN payload_queue :
                \E i \in DOMAIN sent' :
                   /\ sent'[i].kind = "broadcast"
                   /\ payload_queue[j].payload \in Range(sent'[i].data)
          /\ pc' = "handle"]_vars

(* a tick with a bad lease file has kept client 1 and sent it the payload, *)
(* and the next tick, with a well-formed file, has added client 2          *)
C22_Witness ==
    /\ pc = "handle"
    /\ ticks = 2
    /\ DOMAIN clients = {1, 2}
    /\ sent # <<>>

(* the transport has died on a lease file of fewer than 8 bytes *)
C22_Panicked == pc = "panicked" /\ DOMAIN clients = {1}


----------------------------------------------------------------------------
(* Calls of the pure functions of the program.  pc = "call" is a program   *)
(* that has been constructed and is about to call a function; arg holds    *)
(* the argument of the call made and ret what it returned.                 *)

InitCall == PitotLinked(2, <<>>, {}, FALSE, FALSE, <<>>, "call")

(* the call f(a) returned r *)
Called(a, r) ==
    /\ pc = "call"
    /\ pc' = "returned"
    /\ arg' = Some(a)
    /\ ret' = Some(r)
    /\ UNCHANGED <<ticks, handleVars, freq, transports, sensors, ran,
                   gnssVars,
                   queueVars, trafficVars, gdl90Vars, udpVars, ownshipVars,
                   chanVars, twin, nfed, pushed, seen, tlog, sent>>

----------------------------------------------------------------------------
(* GDL90::prepare_payload, called on message buffers.  buf here is the     *)
(* message without the two bytes left empty for the CRC; every caller      *)
(* passes at least one message byte (the message id).                      *)

MaxLenFrame == 3

(* 0x00, 0x20, 0x5E, the escape 0x7D and the flag 0x7E *)
BytesFrame == {0, 32, 94, 125, 126}

RECURSIVE SeqsOfLen(_, _)
SeqsOfLen(S, n) ==
    IF n = 0 THEN {<<>>}
    ELSE {Append(q, b) : q \in SeqsOfLen(S, n - 1), b \in S}

BufsFrame == UNION {SeqsOfLen(BytesFrame, n) : n \in 1..MaxLenFrame}

CallPreparePayload(bufs) ==
    /\ pc = "call"
    /\ \E buf \in bufs : Called(buf, prepare_payload(buf))

NextFrame == CallPreparePayload(BufsFrame)

SpecFrame == InitCall /\ [][NextFrame]_vars

(* what a receiver reads back from f[lo..hi]: the byte after an escape     *)
(* with bit 0x20 flipped, every other byte as it is                        *)
RECURSIVE Unstuff(_, _, _)
Unstuff(f, lo, hi) ==
    IF lo > hi THEN <<>>
    ELSE IF f[lo] = 125 /\ lo < hi
    THEN <<Xor8(f[lo + 1], 32)>> \o Unstuff(f, lo + 2, hi)
    ELSE <<f[lo]>> \o Unstuff(f, lo + 1, hi)

(* C23: the frame prepare_payload returns begins with one 0x7E and ends    *)
(* with one 0x7E, has no 0x7E between the two, every 0x7D between them is  *)
(* followed by 0x5D or 0x5E (0x7D or 0x7E with bit 0x20 flipped), and      *)
(* what is between them reads back as the message bytes followed by the    *)
(* low and the high byte of the CRC of the message bytes as they were      *)
(* before the escaping.                                                    *)
C23_FrameWellFormed ==
    ret # None =>
        LET buf == arg[1]
            f == ret[1]
            crc == Crc16(buf)
        IN /\ Len(f) >= 2
           /\ f[1] = 126
           /\ f[Len(f)] = 126
           /\ \A i \in 2..(Len(f) - 1) : f[i] # 126
           /\ \A i \in 2..(Len(f) - 1) :
                 f[i] = 125 => /\ i + 1 <= Len(f) - 1
                               /\ f[i + 1] \in {93, 94}
                               /\ Xor8(f[i + 1], 32) \in {125, 126}
           /\ Unstuff(f, 2, Len(f) - 1) = buf \o <<crc % 256, crc \div 256>>

(* the message 0x20 0x7E has the CRC 0x207E: the flag in the message and   *)
(* the flag in the low byte of the CRC are both escaped                    *)
C23_Witness ==
    /\ arg = Some(<<32, 126>>)
    /\ ret = Some(<<126, 32, 125, 94, 125, 94, 32, 126>>)


----------------------------------------------------------------------------
(* icao_to_tail, called on 24-bit addresses: the addresses of the test,    *)
(* the lowest and the highest address, and every address from MarginTail   *)
(* below the US block to MarginTail above it.                              *)

MarginTail == 1000

(* 0xA00001, 0xADF7C7, 0xAFFFFF *)
TailFirst == 10485761
TailLast == 11401159
MilLast == 11534335

(* 0xAA5694, 0xA29CBF, 0xA66A54, 0xA00001, 0xA029D9, 0xA18FA9, 0x780A2C *)
IcaosTest == {11163284, 10656959, 10906196, 10485761, 10496473, 10588073,
              7866924}

IcaosFar == IcaosTest \cup {0, 16777215}

IcaosTail == (TailFirst - MarginTail)..(MilLast + MarginTail)

CallIcaoToTail(icaos) ==
    /\ pc = "call"
    /\ \E icao \in icaos : Called(icao, icao_to_tail(icao))

NextTail ==
    \/ CallIcaoToTail(IcaosFar)
    \/ CallIcaoToTail(IcaosTail)

SpecTail == InitCall /\ [][NextTail]_vars

TailOfTest(icao) ==
    CASE icao = 11163284 -> Some(<<"N", "7", "6", "5", "0", "8">>)
      [] icao = 10656959 -> Some(<<"N", "2", "6", "8", "A", "K">>)
      [] icao = 10906196 -> Some(<<"N", "5", "1", "2", "R">>)
      [] icao = 10485761 -> Some(<<"N", "1">>)
      [] icao = 10496473 -> Some(<<"N", "1", "1">>)
      [] icao = 10588073 -> Some(<<"N", "2", "0">>)
      [] icao = 7866924 -> None

(* C24: icao_to_tail returns Some of a string that starts with N for an    *)
(* address in [0xA00001, 0xADF7C7], Some("US-MIL") for an address in       *)
(* (0xADF7C7, 0xAFFFFF] and None for any other address; for the seven      *)
(* addresses of the test it returns N76508, N268AK, N512R, N1, N11, N20    *)
(* and None.                                                               *)
C24_TailByRange ==
    ret # None =>
        LET icao == arg[1]
            tail == ret[1]
        IN /\ (icao >= TailFirst /\ icao <= TailLast) =>
                 /\ IsSome(tail)
                 /\ Len(Unwrap(tail)) >= 2
                 /\ Unwrap(tail)[1] = "N"
           /\ (icao > TailLast /\ icao <= MilLast) =>
                 tail = Some(<<"U", "S", "-", "M", "I", "L">>)
           /\ (icao < TailFirst \/ icao > MilLast) => tail = None
           /\ icao \in IcaosTest => tail = TailOfTest(icao)

(* 0xA29CBF has been looked up and gave N268AK *)
C24_Witness ==
    /\ arg = Some(10656959)
    /\ ret = Some(Some(<<"N", "2", "6", "8", "A", "K">>))

(* the last civil address 0xADF7C7 gave a tail number, the one after it    *)
(* US-MIL                                                                  *)
C24_WitnessLast ==
    /\ arg = Some(TailLast)
    /\ IsSome(ret[1])
    /\ Unwrap(ret[1])[1] = "N"


----------------------------------------------------------------------------
(* alt_to_gdl90, called on every whole number of feet from BelowAltGdl90   *)
(* below zero to MaxAltGdl90: each of them is an f32                       *)

BelowAltGdl90 == 1200
MaxAltGdl90 == 101500

AltsGdl90 == (-BelowAltGdl90)..MaxAltGdl90

CallAltToGdl90(alts) ==
    /\ pc = "call"
    /\ \E a \in alts : Called(a, alt_to_gdl90(a))

NextAlt == CallAltToGdl90(AltsGdl90)

SpecAlt == InitCall /\ [][NextAlt]_vars

(* test_alt_to_gdl90 *)
AltOfTest(a) ==
    CASE a = -2000 -> 4095
      [] a = -1001 -> 4095
      [] a = -1000 -> 0
      [] a = -975 -> 1
      [] a = 0 -> 40
      [] a = 1000 -> 80
      [] a = 1001 -> 80
      [] a = 1025 -> 81
      [] a = 101350 -> 4094
      [] a = 101351 -> 4095

AltsTest == {-2000, -1001, -1000, -975, 0, 1000, 1001, 1025, 101350, 101351}

(* C25: for a whole number a of feet, alt_to_gdl90(a) is 0xFFF when        *)
(* a < -1000 or a > 101350; otherwise it is the whole number nearest to    *)
(* (a + 1000) / 25, which lies in 0x000..0xFFE, so it is never 0xFFF, and  *)
(* 25 * code - 1000 is within 12.5 ft of a; the values of the test are     *)
(* returned for the arguments of the test.                                 *)
C25_AltitudeCode ==
    ret # None =>
        LET a == arg[1]
            code == ret[1]
        IN /\ (a < -1000 \/ a > 101350) => code = 4095
           /\ (a >= -1000 /\ a <= 101350) =>
                 /\ code \in 0..4094
                 /\ code = (2 * (a + 1000) + 25) \div 50
                 /\ 2 * (25 * code - 1000 - a) <= 25
                 /\ 2 * (a - (25 * code - 1000)) <= 25
           /\ a \in AltsTest => code = AltOfTest(a)

(* 1025 ft has been encoded as 0x051 *)
C25_Witness == arg = Some(1025) /\ ret = Some(81)

(* the highest altitude in range has been encoded as 0xFFE and the one     *)
(* above it as the sentinel                                                *)
C25_WitnessTop == arg = Some(101350) /\ ret = Some(4094)
C25_WitnessAbove == arg = Some(101351) /\ ret = Some(4095)


----------------------------------------------------------------------------
(* crs_to_gdl90, called on every whole number of degrees from              *)
(* BelowCrsGdl90 below zero to MaxCrsGdl90                                  *)

BelowCrsGdl90 == 400
MaxCrsGdl90 == 800

CrsGdl90 == (-BelowCrsGdl90)..MaxCrsGdl90

CallCrsToGdl90(crss) ==
    /\ pc = "call"
    /\ \E c \in crss : \E r \in crs_to_gdl90_builds(c) : Called(c, r)

NextCrs == CallCrsToGdl90(CrsGdl90)

SpecCrs == InitCall /\ [][NextCrs]_vars

(* test_crs_to_gdl90 *)
CrsOfTest(c) ==
    CASE c = 0 -> 0
      [] c = 180 -> 128
      [] c = 266 -> 189
      [] c = 359 -> 255
      [] c = 360 -> 0

CrssTest == {0, 180, 266, 359, 360}

(* C26: for a whole number c of degrees, crs_to_gdl90(c) is the whole      *)
(* part of c' / (360 / 256), where c' is c brought into [0, 360) by        *)
(* adding or subtracting 360, and so is a value of one byte; 0, 180, 266,  *)
(* 359 and 360 give 0x00, 0x80, 0xBD, 0xFF and 0x00.                       *)
C26_CourseCode ==
    ret # None =>
        LET c == arg[1]
            code == ret[1]
        IN /\ code \in 0..255
           /\ code = ((c % 360) * 256) \div 360
           /\ c \in CrssTest => code = CrsOfTest(c)

(* 266 degrees have been encoded as 0xBD *)
C26_Witness == arg = Some(266) /\ ret = Some(189)

(* 360 degrees have been encoded as 0xFF, and as 0x00 *)
C26_Saturated == arg = Some(360) /\ ret = Some(255)
C26_Wrapped == arg = Some(360) /\ ret = Some(0)

(* C26 away from the whole turns: the same statement for every course      *)
(* that is below 360 or not a multiple of 360                              *)
C26_CourseCodeOffTurn ==
    (ret # None /\ (arg[1] < 360 \/ arg[1] % 360 # 0)) =>
        /\ ret[1] \in 0..255
        /\ ret[1] = ((arg[1] % 360) * 256) \div 360
        /\ arg[1] \in CrssTest => ret[1] = CrsOfTest(arg[1])


----------------------------------------------------------------------------
(* SpecEvery: Pitot at 1, 2 or 10 Hz with the UDP transport and one        *)
(* client, the monotonic clock advancing by one period a tick, over enough *)
(* ticks for the cleanup pass to run at 10 Hz; one aircraft may be heard   *)
(* in the first ticks.                                                     *)

MaxTicksEvery == 101
MaxFedEvery == 1
FeedTicksEvery == 2
FreqsEvery == {1, 2, 10}

BatchesEvery(n) ==
    IF n <= FeedTicksEvery
    THEN {<<>>, <<TrafficItem(AdsbVelocity(10597059))>>}
    ELSE {<<>>}

InitEvery == \E f \in FreqsEvery : PitotNew(f, <<"UDP">>, {1}, FALSE)

NextEvery ==
    \/ NewHandle({1000 \div freq}, {0}, MaxTicksEvery)
    \/ RunSensors(BatchesEvery(ticks), MaxFedEvery)
    \/ RunProcessors
    \/ RunProtocols
    \/ RunTransports({Quiet})

SpecEvery == InitEvery /\ [][NextEvery]_vars

(* max(1, floor(freq / hz)) for hz = num / den *)
ThresholdEvery(num, den) ==
    IF (freq * den) \div num >= 1 THEN (freq * den) \div num ELSE 1

(* the thresholds of the cleanup pass (0.1 Hz), of the emit pass (1 Hz)    *)
(* and of the ping (1 Hz)                                                  *)
CleanupEvery == ThresholdEvery(1, 10)
ReportEvery == ThresholdEvery(1, 1)
PingEvery == ThresholdEvery(1, 1)

(* no counter is at or above its threshold between two runs, and at the    *)
(* end of tick n each body has run in the tick exactly when n is a         *)
(* multiple of its threshold                                               *)
EveryPaced ==
    /\ cleanup_counter < CleanupEvery
    /\ report_counter < ReportEvery
    /\ ping_counter < PingEvery
    /\ freq = 10 => CleanupEvery = 100 /\ ReportEvery = 10 /\ PingEvery = 10
    /\ (pc = "handle" /\ ticks > 0) =>
          /\ "cleanup" \in ran <=> ticks % CleanupEvery = 0
          /\ "report" \in ran <=> ticks % ReportEvery = 0
          /\ "ping" \in ran <=> ticks % PingEvery = 0

(* a run of Traffic::run or of UDP::run adds one to each of its counters,  *)
(* and runs the body and puts the counter back to 0 exactly when the       *)
(* counter has reached the threshold                                       *)
EveryStep ==
    /\ pc = "processors" =>
          /\ cleanup_counter' = IF cleanup_counter + 1 = CleanupEvery
                                THEN 0 ELSE cleanup_counter + 1
          /\ "cleanup" \in ran' <=> cleanup_counter + 1 = CleanupEvery
          /\ report_counter' = IF report_counter + 1 = ReportEvery
                               THEN 0 ELSE report_counter + 1
          /\ "report" \in ran' <=> report_counter + 1 = ReportEvery
    /\ pc = "transports" =>
          /\ ping_counter' = IF ping_counter + 1 = PingEvery
                             THEN 0 ELSE ping_counter + 1
          /\ "ping" \in ran' <=> ping_counter + 1 = PingEvery

(* C27: run_every! adds one to the counter on every tick and runs the body *)
(* exactly when the counter reaches max(1, floor(freq / hz)), putting the  *)
(* counter back to 0; so the body runs once every that many ticks (at      *)
(* 10 Hz the cleanup every 100 ticks, the emit and the ping every 10) and  *)
(* the counter never exceeds the threshold.                                *)
C27_RunEveryPaced == []EveryPaced /\ [][EveryStep]_vars

(* at 10 Hz tick 100 has ended, and the cleanup, the emit and the ping     *)
(* have all run in it                                                      *)
C27_Witness ==
    /\ freq = 10
    /\ ticks = 100
    /\ pc = "handle"
    /\ ran = {"cleanup", "report", "ping"}

(* at 10 Hz tick 10 has ended with the emit and the ping but no cleanup *)
C27_WitnessTen ==
    /\ freq = 10
    /\ ticks = 10
    /\ pc = "handle"
    /\ ran = {"report", "ping"}


----------------------------------------------------------------------------
(* SpecCleanup: Pitot at 1 Hz with no transport linked, two aircraft heard *)
(* over ADS-B, and ticks that overrun by half a minute, so that at the     *)
(* cleanup pass of tick 10 a target may be 59 s, 59.5 s or 60 s old        *)

MaxTicksCleanup == 10
MaxFedCleanup == 2

StepsCleanup == {29500, 30000}

BatchesCleanup ==
    {<<>>,
     <<TrafficItem(AdsbVelocity(10597059))>>,
     <<TrafficItem(AdsbIdent(11163284))>>}

InitCleanup == PitotNew(1, <<>>, {}, FALSE)

NextCleanup ==
    \/ NewHandle(StepsCleanup, {0}, MaxTicksCleanup)
    \/ RunSensors(BatchesCleanup, MaxFedCleanup)
    \/ RunProcessors
    \/ RunProtocols
    \/ RunTransports({Quiet})

SpecCleanup == InitCleanup /\ [][NextCleanup]_vars

(* the ICAOs the run of Traffic::run that ends in log has met: those of    *)
(* the map and those of the reports of the tick                            *)
KeysCleanup(log) ==
    DOMAIN situation \cup {log[i].t.addr[1] : i \in DOMAIN log}

(* when k accepted its last report, given the reports of the tick in log   *)
LastAccepted(k, log) ==
    IF \E i \in DOMAIN log : log[i].t.addr[1] = k /\ ~log[i].skipped
    THEN clock
    ELSE situation[k].last_seen

(* C28: the cleanup pass runs in one tick out of 10 * freq (once every     *)
(* 10 s); a run of Traffic::run with the pass leaves in the map exactly    *)
(* the targets whose last accepted report is less than 60 s (60000 ms)     *)
(* before the clock of the tick, a run without it removes nothing; so a    *)
(* target that accepted a report less than 60 s before, in an earlier tick *)
(* or in the loop of the same run, is in the map when the run ends.        *)
C28_CleanupRemovesOnlyStale ==
    [][pc = "processors" =>
          /\ "cleanup" \in ran' <=> ticks % (10 * freq) = 0
          /\ DOMAIN situation' =
                IF "cleanup" \in ran'
                THEN {k \in KeysCleanup(tlog') :
                         clock - LastAccepted(k, tlog') < 60000}
                ELSE KeysCleanup(tlog')
          /\ \A k \in KeysCleanup(tlog') :
                clock - LastAccepted(k, tlog') < 60000 =>
                   /\ k \in DOMAIN situation'
                   /\ situation'[k].last_seen = LastAccepted(k, tlog')]_vars

(* a cleanup pass has removed one aircraft and kept the other, which had   *)
(* accepted a report in the loop of the same run                           *)
C28_Witness ==
    /\ pc = "protocols"
    /\ "cleanup" \in ran
    /\ nfed = 2
    /\ DOMAIN situation = {11163284}
    /\ situation[11163284].last_seen = clock
    /\ \E i \in DOMAIN tlog : tlog[i].t.addr[1] = 11163284

(* a cleanup pass has kept a target that is 59.5 s old *)
C28_WitnessKept ==
    /\ pc = "protocols"
    /\ "cleanup" \in ran
    /\ \E k \in DOMAIN situation : clock - situation[k].last_seen = 59500

(* a cleanup pass has removed a target that was exactly 60 s old: the map  *)
(* is empty after a report had been accepted 60 s before                   *)
C28_WitnessRemoved ==
    /\ pc = "protocols"
    /\ "cleanup" \in ran
    /\ situation = <<>>
    /\ nfed = 1
    /\ clock >= 60000


----------------------------------------------------------------------------
(* SpecLockout: Pitot at 2 Hz with no transport linked; one aircraft is    *)
(* heard under each of the seven address types, with an altitude, in       *)
(* ticks half a second or two seconds apart, and twice in one tick         *)

MaxTicksLockout == 3
MaxFedLockout == 3

StepsLockout == {500, 2000}

Heard(typ) ==
    [NoData(10597059, typ, IF IsADSB(typ) THEN "ES" ELSE "UAT") EXCEPT
       !.altitude = Some(<<IF IsADSB(typ) THEN 12375 ELSE 5000, "Baro">>)]

BatchesLockout ==
    {<<>>}
    \cup {<<TrafficItem(Heard(typ))>> : typ \in AddressType}
    \cup {<<TrafficItem(Heard("ADSBICAO")), TrafficItem(Heard(typ))>> :
             typ \in {"TISBOther", "Unknown"}}

InitLockout == PitotNew(2, <<>>, {}, FALSE)

NextLockout ==
    \/ NewHandle(StepsLockout, {0}, MaxTicksLockout)
    \/ RunSensors(BatchesLockout, MaxFedLockout)
    \/ RunProcessors
    \/ RunProtocols
    \/ RunTransports({Quiet})

SpecLockout == InitLockout /\ [][NextLockout]_vars

(* C29: a report that the ADS-B lockout skips is a report for a target     *)
(* that was in the map, and the loop body leaves every field of that       *)
(* target as it found it: addr, source, last_seen, and each stamped field  *)
(* with its stamp; a run of Traffic::run whose only report is skipped, and *)
(* that has no cleanup pass, leaves the whole map as it was.               *)
C29_SkippedReportChangesNothing ==
    [][pc = "processors" =>
          /\ \A i \in DOMAIN tlog' :
                tlog'[i].skipped =>
                   /\ tlog'[i].known
                   /\ tlog'[i].after = tlog'[i].found
          /\ (Len(tlog') = 1 /\ tlog'[1].skipped /\ "cleanup" \notin ran') =>
                situation' = situation]_vars

(* a relayed report has been skipped half a second after an ADS-B report   *)
(* of an earlier tick, and the target still has the altitude, the stamp    *)
(* and the last_seen of that tick                                          *)
C29_Witness ==
    /\ pc = "protocols"
    /\ Len(tlog) = 1
    /\ tlog[1].skipped
    /\ tlog[1].t.addr[2] \in RelayedTypes
    /\ situation[10597059].last_seen = clock - 500
    /\ situation[10597059].altitude = Some(<<12375, "Baro", clock - 500>>)
    /\ situation[10597059].addr[2] = "ADSBICAO"

(* C30: the ADS-B lockout skips a report only if its address type is       *)
(* ADSRICAO, ADSROther, TISBICAO or TISBOther; a report whose address type *)
(* is ADSBICAO, ADSBOther or Unknown is not skipped, and the target then   *)
(* has the address, the source and the altitude of the report, stamped     *)
(* with the clock of the tick.                                             *)
C30_OnlyRelayedReportsSkipped ==
    \A i \in DOMAIN tlog :
        /\ tlog[i].skipped => tlog[i].t.addr[2] \in RelayedTypes
        /\ tlog[i].t.addr[2] \in {"ADSBICAO", "ADSBOther", "Unknown"} =>
              /\ ~tlog[i].skipped
              /\ tlog[i].after.addr = tlog[i].t.addr
              /\ tlog[i].after.source = tlog[i].t.source
              /\ tlog[i].after.last_seen = clock
              /\ tlog[i].after.altitude =
                    Some(<<Unwrap(tlog[i].t.altitude)[1],
                           Unwrap(tlog[i].t.altitude)[2], clock>>)

(* an ADS-B report has been merged into a target last heard over a relay *)
C30_Witness ==
    \E i \in DOMAIN tlog :
        /\ tlog[i].known
        /\ tlog[i].found.addr[2] \in RelayedTypes
        /\ tlog[i].t.addr[2] = "ADSBOther"
        /\ ~tlog[i].skipped
        /\ tlog[i].after.addr[2] = "ADSBOther"

(* a report of address type Unknown has been skipped *)
C30_UnknownSkipped ==
    \E i \in DOMAIN tlog :
        /\ tlog[i].t.addr[2] = "Unknown"
        /\ tlog[i].skipped
        /\ tlog[i].after.addr[2] = "ADSBICAO"

(* C30 with Unknown among the types the lockout skips: a report is skipped *)
(* only if its address type is none of ADSBICAO and ADSBOther, and a       *)
(* report of one of these two types is always merged                       *)
C30_OnlyNonAdsbReportsSkipped ==
    \A i \in DOMAIN tlog :
        /\ tlog[i].skipped => ~IsADSB(tlog[i].t.addr[2])
        /\ IsADSB(tlog[i].t.addr[2]) =>
              /\ ~tlog[i].skipped
              /\ tlog[i].after.addr = tlog[i].t.addr
              /\ tlog[i].after.source = tlog[i].t.source
              /\ tlog[i].after.last_seen = clock


----------------------------------------------------------------------------
(* SpecMerge: Pitot at 2 Hz with no transport linked; one aircraft sends   *)
(* ADS-B reports that each carry some of the optional fields: a position   *)
(* report, a velocity report and an identity report, in any order, in      *)
(* ticks half a second or two and a half seconds apart                     *)

MaxTicksMerge == 3
MaxFedMerge == 3

StepsMerge == {500, 2500}

BatchesMerge ==
    {<<>>,
     <<TrafficItem(AdsbPosition(10597059))>>,
     <<TrafficItem(AdsbVelocity(10597059))>>,
     <<TrafficItem(AdsbIdent(10597059))>>}

InitMerge == PitotNew(2, <<>>, {}, FALSE)

NextMerge ==
    \/ NewHandle(StepsMerge, {0}, MaxTicksMerge)
    \/ RunSensors(BatchesMerge, MaxFedMerge)
    \/ RunProcessors
    \/ RunProtocols
    \/ RunTransports({Quiet})

SpecMerge == InitMerge /\ [][NextMerge]_vars

(* the value with the stamp at its end, as the target stores it *)
StampedPair(v, stamp) == Some(<<v[1], v[2], stamp>>)
StampedOne(v, stamp) == Some(<<v, stamp>>)

(* C31: after an accepted report, addr, source and last_seen of the target *)
(* are those of the report and the clock of the tick; each optional field  *)
(* the report carries is overwritten, the stamped ones (altitude, heading, *)
(* speed, vs, lat_lon) with the clock of the tick as their stamp; each     *)
(* optional field the report lacks keeps the value, and the stamp, it had  *)
(* before.                                                                 *)
C31_MergeKeepsAbsentFields ==
    \A i \in DOMAIN tlog :
        ~tlog[i].skipped =>
            LET t == tlog[i].t
                old == tlog[i].found
                new == tlog[i].after
            IN /\ new.addr = t.addr
               /\ new.source = t.source
               /\ new.last_seen = clock
               /\ new.altitude = IF IsSome(t.altitude)
                                 THEN StampedPair(Unwrap(t.altitude), clock)
                                 ELSE old.altitude
               /\ new.heading = IF IsSome(t.heading)
                                THEN StampedPair(Unwrap(t.heading), clock)
                                ELSE old.heading
               /\ new.speed = IF IsSome(t.speed)
                              THEN StampedPair(Unwrap(t.speed), clock)
                              ELSE old.speed
               /\ new.vs = IF IsSome(t.vs)
                           THEN StampedOne(Unwrap(t.vs), clock)
                           ELSE old.vs
               /\ new.lat_lon = IF IsSome(t.lat_lon)
                                THEN StampedOne(Unwrap(t.lat_lon), clock)
                                ELSE old.lat_lon
               /\ \A f \in {"gnss_delta", "squawk", "callsign", "category",
                            "nic", "nacp", "on_ground"} :
                     new[f] = IF IsSome(t[f]) THEN t[f] ELSE old[f]

(* a velocity report has been merged into a target that had a position:    *)
(* the altitude, the position and their stamps of an earlier tick are      *)
(* kept, the heading is stamped with the clock of this tick                *)
C31_Witness ==
    \E i \in DOMAIN tlog :
        /\ tlog[i].known
        /\ ~tlog[i].skipped
        /\ tlog[i].t.altitude = None
        /\ IsSome(tlog[i].found.altitude)
        /\ tlog[i].after.altitude = tlog[i].found.altitude
        /\ Unwrap(tlog[i].after.altitude)[3] < clock
        /\ tlog[i].after.lat_lon = tlog[i].found.lat_lon
        /\ tlog[i].after.nic = Some(7)
        /\ tlog[i].after.heading = Some(<<123, "True", clock>>)

----------------------------------------------------------------------------
(* SpecCorrected: Pitot at 2 Hz fed the altitude of one aircraft, as a     *)
(* pressure or a geometric altitude, with or without the difference of the *)
(* two, and the barometer of the ownship                                   *)

MaxTicksCorrected == 3
MaxFedCorrected == 2

(* a report of the altitude alt of type typ, delta the GNSS difference *)
AltReport(alt, typ, delta) ==
    [NoData(10597059, "ADSBICAO", "ES") EXCEPT
       !.altitude = Some(<<alt, typ>>), !.gnss_delta = delta]

BatchesCorrected ==
    {<<>>,
     <<Baro(3000)>>,
     <<TrafficItem(AltReport(12375, "Baro", Some(1000)))>>,
     <<TrafficItem(AltReport(12375, "GNSS", Some(1000)))>>,
     <<TrafficItem(AltReport(5000, "Baro", None))>>,
     <<TrafficItem(AltReport(5000, "GNSS", None))>>,
     <<Baro(3000), TrafficItem(AltReport(12375, "GNSS", Some(1000)))>>}

InitCorrected == PitotNew(2, <<>>, {}, FALSE)

NextCorrected ==
    \/ NewHandle({500}, {0}, MaxTicksCorrected)
    \/ RunSensors(BatchesCorrected, MaxFedCorrected)
    \/ RunProcessors
    \/ RunProtocols
    \/ RunTransports({Quiet})

SpecCorrected == InitCorrected /\ [][NextCorrected]_vars

(* the 12-bit altitude of the framed Traffic Report p: buf[11] and the     *)
(* high nibble of buf[12] of the message between the flags                 *)
AltitudeOf(p) ==
    LET buf == Unstuff(p.payload, 2, Len(p.payload) - 1)
    IN buf[12] * 16 + buf[13] \div 16

(* the altitude the encoder is to code for the target e under pav *)
ExpectedAlt(e, pav) ==
    LET alt == Unwrap(e.altitude)[1]
        typ == Unwrap(e.altitude)[2]
    IN CASE e.gnss_delta = None -> alt
         [] ~pav /\ typ = "Baro" -> alt + Unwrap(e.gnss_delta)
         [] pav /\ typ = "GNSS" -> alt - Unwrap(e.gnss_delta)
         [] OTHER -> alt

(* the Traffic payloads of the tick code the altitude of their targets     *)
(* corrected under the flag as the ownship reports of the tick left it     *)
CorrectedCoded ==
    pc = "transports" =>
        LET reps == TrafficReportsOf(seen.protocols)
            outs == TrafficPayloadsOf(pushed.protocols)
        IN /\ Len(outs) = Len(reps)
           /\ \A i \in DOMAIN reps :
                 LET e == reps[i].target
                 IN (IsSome(e.altitude)
                     /\ clock - Unwrap(e.altitude)[3] <= 6000)
                    => AltitudeOf(outs[i])
                         = alt_to_gdl90(ExpectedAlt(e, pres_alt_valid))

(* pres_alt_valid never goes back to false *)
PresAltValidKept == pres_alt_valid => pres_alt_valid'

(* C32: a Traffic Report with a non-stale altitude codes alt + gnss_delta  *)
(* when pres_alt_valid is false and the altitude is a pressure altitude,   *)
(* alt - gnss_delta when pres_alt_valid is true and the altitude is a      *)
(* geometric altitude, and alt itself in the two other combinations and    *)
(* whenever gnss_delta is absent; and pres_alt_valid, once an ownship      *)
(* report with a pressure altitude has set it, stays true.                 *)
C32_AltitudeCorrected == []CorrectedCoded /\ [][PresAltValidKept]_vars

(* the values of test_generate_traffic: 12375 ft with a difference of      *)
(* 1000 ft is coded 0x23F as a pressure altitude while pres_alt_valid is   *)
(* false                                                                   *)
C32_Witness ==
    /\ pc = "transports"
    /\ ~pres_alt_valid
    /\ \E i \in DOMAIN TrafficReportsOf(seen.protocols) :
          LET e == TrafficReportsOf(seen.protocols)[i].target
          IN /\ e.altitude = Some(<<12375, "Baro", clock>>)
             /\ e.gnss_delta = Some(1000)
             /\ AltitudeOf(TrafficPayloadsOf(pushed.protocols)[i]) = 575

(* the same altitude as a geometric altitude is coded 0x1EF once an        *)
(* ownship report has carried a pressure altitude, also in a later tick    *)
C32_WitnessGnss ==
    /\ pc = "transports"
    /\ pres_alt_valid
    /\ seen.protocols # <<>>
    /\ \A i \in DOMAIN seen.protocols : seen.protocols[i].kind = "Traffic"
    /\ \E i \in DOMAIN TrafficReportsOf(seen.protocols) :
          LET e == TrafficReportsOf(seen.protocols)[i].target
          IN /\ IsSome(e.altitude)
             /\ Unwrap(e.altitude)[1] = 12375
             /\ Unwrap(e.altitude)[2] = "GNSS"
             /\ e.gnss_delta = Some(1000)
             /\ AltitudeOf(TrafficPayloadsOf(pushed.protocols)[i]) = 495

(* a pressure altitude is coded as it is, 0x217, once pres_alt_valid is    *)
(* true                                                                    *)
C32_WitnessBaroKept ==
    /\ pc = "transports"
    /\ pres_alt_valid
    /\ \E i \in DOMAIN TrafficReportsOf(seen.protocols) :
          LET e == TrafficReportsOf(seen.protocols)[i].target
          IN /\ IsSome(e.altitude)
             /\ Unwrap(e.altitude)[2] = "Baro"
             /\ e.gnss_delta = Some(1000)
             /\ AltitudeOf(TrafficPayloadsOf(pushed.protocols)[i]) = 535

----------------------------------------------------------------------------
(* SpecClients: update_clients_list called on a client map, a well-formed  *)
(* lease file and a wall clock                                             *)

(* the second at which the lease files here were written *)
WrittenClients == BeUint(SubSeq(LeaseBytes(<<>>), 1, 8))

(* the monotonic clock of the call, ms *)
ClocksClients == {45000, 45500}

(* clients as earlier ticks can have left them: just added, in the app    *)
(* and replayed to, dead with in_app left set                              *)
StatesClients ==
    {NewClient(44500),
     [active |-> TRUE, last_reply |-> 44000, in_app |-> TRUE,
      last_refused |-> 500, last_replay |-> 30500],
     [active |-> FALSE, last_reply |-> 1000, in_app |-> TRUE,
      last_refused |-> 2000, last_replay |-> 500]}

MapsClients ==
    UNION {[ips -> StatesClients] : ips \in SUBSET {1, 2}}

(* the leases of a file, <<d, e>> for the address 0.0.0.d expiring e       *)
(* seconds after the file was written                                      *)
LeasesClients ==
    {<<>>,
     <<<<1, 50>>>>,
     <<<<2, 100>>>>,
     <<<<1, 50>>, <<2, 100>>>>,
     <<<<3, 100>>, <<1, 100>>>>,
     <<<<2, 50>>, <<3, 50>>, <<2, 100>>>>}

(* the wall clock, s: before every expiry, one second before and at the    *)
(* expiry of the short leases, and of the long ones, and after             *)
WallsClients == {0, 59, 60, 109, 110, 200}

RECURSIVE LeaseRecords(_)
LeaseRecords(ls) ==
    IF ls = <<>> THEN <<>>
    ELSE LeaseRecord(Head(ls)[1], Head(ls)[2]) \o LeaseRecords(Tail(ls))

(* update_clients_list(utc, clock) on the map cl with the file of leases *)
CallUpdateClientsList(maps, leases, walls, clocks) ==
    /\ pc = "call"
    /\ \E cl \in maps, ls \in leases, wall \in walls, clk \in clocks :
          LET file == LeaseFile(TRUE, TRUE, LeaseBytes(LeaseRecords(ls)))
          IN Called([clients |-> cl, leases |-> ls, wall |-> wall,
                     clock |-> clk],
                    LeaseEvent(cl, ReadLease(file, wall), clk))

NextClients ==
    CallUpdateClientsList(MapsClients, LeasesClients, WallsClients,
                          ClocksClients)

SpecClients == InitCall /\ [][NextClients]_vars

(* the addresses of the leases ls that are alive at wall *)
AliveAt(ls, wall) ==
    {ls[k][1] : k \in {j \in DOMAIN ls : wall < WrittenClients + ls[j][2]}}

(* C33: after update_clients_list has parsed the lease file, the keys of   *)
(* the client map are the addresses with a lease for which                 *)
(* utc_now.sec < written_at + expiry; the clients whose address is not     *)
(* among them are gone, the addresses that were not in the map are there   *)
(* as new clients (active, not in the app, last_reply, last_refused and    *)
(* last_replay the clock of the call), and the clients that were in the    *)
(* map and stay keep active, in_app, last_reply, last_refused and          *)
(* last_replay as they were.                                               *)
C33_ClientsFollowLeases ==
    ret # None =>
        LET a == Unwrap(arg)
            new == Unwrap(ret)
            alive == AliveAt(a.leases, a.wall)
        IN /\ DOMAIN new = alive
           /\ \A ip \in alive :
                 new[ip] = IF ip \in DOMAIN a.clients
                           THEN a.clients[ip]
                           ELSE [active |-> TRUE, in_app |-> FALSE,
                                 last_reply |-> a.clock,
                                 last_refused |-> a.clock,
                                 last_replay |-> a.clock]

(* at second 59 the lease of client 1 (written at 10, 50 s) is alive and   *)
(* the one of client 2 too: client 1, dead and in the app, is kept as it   *)
(* was and client 2 is added                                               *)
C33_Witness ==
    /\ ret # None
    /\ Unwrap(arg).wall = 59
    /\ Unwrap(arg).leases = <<<<1, 50>>, <<2, 100>>>>
    /\ DOMAIN Unwrap(arg).clients = {1}
    /\ ~Unwrap(arg).clients[1].active
    /\ DOMAIN Unwrap(ret) = {1, 2}
    /\ Unwrap(ret)[1] = Unwrap(arg).clients[1]
    /\ Unwrap(arg).clock = 45500
    /\ Unwrap(ret)[2].last_replay = 45500

(* at second 60 the lease of client 1 has expired: it is removed *)
C33_WitnessExpired ==
    /\ ret # None
    /\ Unwrap(arg).wall = 60
    /\ Unwrap(arg).leases = <<<<1, 50>>, <<2, 100>>>>
    /\ DOMAIN Unwrap(arg).clients = {1, 2}
    /\ DOMAIN Unwrap(ret) = {2}

----------------------------------------------------------------------------
(* SpecRefused: Pitot at 2 Hz with the UDP transport and two clients that  *)
(* answer the pings; the socket of client 1 answers every send of a        *)
(* payload with ConnectionRefused, the socket of client 2 with WouldBlock  *)

MaxTicksRefused == 3
MaxFedRefused == 2

StepsRefused == {500, 30000}

BatchesRefused == {<<>>, <<Queueable(1000)>>, <<Immediate(32)>>}

EnvsRefused ==
    {[lease |-> None, refusing |-> {1}, replies |-> {1, 2}],
     [lease |-> None, refusing |-> {1}, replies |-> {2}]}

InitRefused == PitotNew(2, <<"UDP">>, {1, 2}, FALSE)

NextRefused ==
    \/ NewHandle(StepsRefused, {0}, MaxTicksRefused)
    \/ RunSensors({<<>>}, nfed)
    \/ RunProcessors
    \/ RunAnyProtocol(BatchesRefused, MaxFedRefused)
    \/ RunTransports(EnvsRefused)

SpecRefused == InitRefused /\ [][NextRefused]_vars

(* the datagrams of the tick of the given kind handed to the socket of ip *)
SentTo(ip, kind) == {i \in DOMAIN sent : sent[i].kind = kind /\ ip \in sent[i].to}

(* every send of the tick to the refusing client, broadcast or replay,     *)
(* has left its last_refused at the clock of the tick                      *)
RefusedStamped ==
    (EndOfTick /\ SentTo(1, "broadcast") \cup SentTo(1, "replay") # {})
    => clients[1].last_refused = clock

(* the sends that fail with WouldBlock leave the client to what the echo   *)
(* replies and the reconcile make of it, and the queue and the inactive    *)
(* buffer to what the send phase makes of them                             *)
WouldBlockIgnored ==
    pc = "transports" =>
        /\ clients'[2] = [Reconcile(read_icmp_responses(clients, {2}, clock)[2],
                                    clock)
                          EXCEPT !.last_replay = clients'[2].last_replay]
        /\ clients'[2].last_refused \in {clients[2].last_refused, clock}
        /\ clients'[2].last_refused = clock
           => (~clients[2].active /\ clients'[2].active)
        /\ Len(inactive_buffer')
             = Len(inactive_buffer)
               + Cardinality({i \in DOMAIN payload_queue :
                                 payload_queue[i].queueable})
        /\ \E k \in 0..Len(queue) + Len(payload_queue) :
              queue' = SubSeq(queue \o SelectSeq(payload_queue,
                                                 LAMBDA p : p.queueable),
                              k + 1,
                              Len(queue)
                              + Len(SelectSeq(payload_queue,
                                              LAMBDA p : p.queueable)))
        /\ Len(ChunksOf(SelectSeq(sent', LAMBDA d : d.kind = "broadcast")))
             = Len(queue) + Len(payload_queue) - Len(queue')

(* C34, as stated: a send of a payload to a client that fails with         *)
(* ConnectionRefused, in a broadcast or in a replay, sets last_refused of  *)
(* that client to the clock of the tick; a send that fails with WouldBlock *)
(* changes nothing of the client and takes nothing from the queue or the   *)
(* inactive buffer that the send phase does not take anyway.               *)
C34_RefusedSendStampsClient == []RefusedStamped /\ [][WouldBlockIgnored]_vars

(* a broadcast has been refused by client 1 and has set its last_refused *)
C34_Witness ==
    /\ EndOfTick
    /\ SentTo(1, "broadcast") # {}
    /\ clock > 500
    /\ clients[1].last_refused = clock
    /\ clients[2].last_refused = 0

(* a replay has been refused by client 1 in a tick without a broadcast:    *)
(* its last_refused is still the clock of an earlier tick                  *)
C34_ReplayRefusedUnstamped ==
    /\ EndOfTick
    /\ SentTo(1, "replay") # {}
    /\ SentTo(1, "broadcast") = {}
    /\ clients[1].last_refused < clock
    /\ clients[1].in_app

(* C34, for the broadcasts: send_to_all_clients sets last_refused of every *)
(* client whose socket answers ConnectionRefused to the clock of the tick, *)
(* and a send that fails with WouldBlock changes nothing.                  *)
C34_RefusedBroadcastStampsClient ==
    /\ [](EndOfTick /\ SentTo(1, "broadcast") # {}
          => clients[1].last_refused = clock)
    /\ [][WouldBlockIgnored]_vars

----------------------------------------------------------------------------
(* SpecInactive: the UDP transport at 2 Hz with no client, after           *)
(* PreloadInactive queueable payloads have gone through it, handed more    *)
(* payloads than the inactive buffer has room for                          *)

(* the queueable payloads received before the first tick followed *)
PreloadInactive == 8190

MaxTicksInactive == 3
MaxFedInactive == 7

(* the k-th queueable payload received: two bytes that tell k *)
Marked(k) == [queueable |-> TRUE, payload |-> <<k % 256, k \div 256>>]

BatchesInactive ==
    {<<>>,
     <<Immediate(32)>>,
     <<Marked(9001)>>,
     <<Marked(9002), Immediate(32), Marked(9003), Marked(9004)>>}

InitInactive ==
    PitotAfter(2, <<"UDP">>, {}, FALSE, FALSE, Sensors, "handle",
               [i \in 1..PreloadInactive |-> Marked(PreloadInactive + 1 - i)],
               SerialIdle)

NextInactive ==
    \/ NewHandle({500}, {0}, MaxTicksInactive)
    \/ RunSensors({<<>>}, nfed)
    \/ RunProcessors
    \/ RunAnyProtocol(BatchesInactive, MaxFedInactive)
    \/ RunTransports({Quiet})

SpecInactive == InitInactive /\ [][NextInactive]_vars

(* the first n elements of q, all of q when it has fewer *)
FirstOf(q, n) == SubSeq(q, 1, IF Len(q) < n THEN Len(q) ELSE n)

(* the queueable payloads of q, the last one first *)
NewestFirst(q) ==
    LET qs == QueueableOf(q)
    IN [i \in 1..Len(qs) |-> qs[Len(qs) + 1 - i]]

(* UDP::run leaves in inactive_buffer the first 8192 of: the queueable     *)
(* payloads it was handed, the last one first, and then what the buffer    *)
(* held                                                                    *)
InactiveStep ==
    pc = "transports" =>
        inactive_buffer'
          = FirstOf(NewestFirst(payload_queue) \o inactive_buffer, 8192)

(* C35: after every run of the transport inactive_buffer holds at most     *)
(* 8192 payloads: the queueable payloads received, the most recent one     *)
(* first; when more than 8192 have been received the oldest ones are       *)
(* dropped; a payload that is not queueable never enters the buffer.       *)
C35_InactiveBufferNewestFirst ==
    /\ [](Len(inactive_buffer) <= 8192
          /\ \A i \in DOMAIN inactive_buffer : inactive_buffer[i].queueable)
    /\ [][InactiveStep]_vars

(* 8190 payloads were in the buffer and four more have come, among         *)
(* payloads that are not queueable: the newest is first and the two oldest *)
(* are gone                                                                *)
C35_Witness ==
    /\ EndOfTick
    /\ Len(inactive_buffer) = 8192
    /\ inactive_buffer[1] = Marked(9004)
    /\ inactive_buffer[4] = Marked(9001)
    /\ inactive_buffer[5] = Marked(8190)
    /\ inactive_buffer[8192] = Marked(3)

----------------------------------------------------------------------------
(* SpecReplay: the UDP transport at 2 Hz with client 1 in the map; the     *)
(* lease file adds client 2, drops it and adds it again; both answer the   *)
(* pings and never refuse, and ticks may come 29.5 s or 30 s apart         *)

MaxTicksReplay == 4
MaxFedReplay == 2

StepsReplay == {500, 29500, 30000}

BatchesReplay == {<<>>, <<Queueable(1000)>>}

EnvsReplay ==
    {[lease |-> None, refusing |-> {}, replies |-> {1, 2}],
     [lease |-> Some({1, 2}), refusing |-> {}, replies |-> {1, 2}],
     [lease |-> Some({1}), refusing |-> {}, replies |-> {1, 2}]}

InitReplay == PitotNew(2, <<"UDP">>, {1}, FALSE)

NextReplay ==
    \/ NewHandle(StepsReplay, {0}, MaxTicksReplay)
    \/ RunSensors({<<>>}, nfed)
    \/ RunProcessors
    \/ RunAnyProtocol(BatchesReplay, MaxFedReplay)
    \/ RunTransports(EnvsReplay)

SpecReplay == InitReplay /\ [][NextReplay]_vars

(* a replay datagram of the tick went to the client ip *)
ReplayedIn(ds, ip) ==
    \E i \in DOMAIN ds : ds[i].kind = "replay" /\ ip \in ds[i].to

(* last_replay of a client is the clock of the tick that added it or of    *)
(* the tick of its last replay, never later than the clock                 *)
ReplayStamped ==
    \A ip \in DOMAIN clients : clients[ip].last_replay <= clock

(* a run of the transport replays to a client only when its last_replay is *)
(* 30 s old or older, and then stamps it; a client the run adds is stamped *)
(* and gets no replay; no other run moves the stamp                        *)
ReplaySpaced ==
    pc = "transports" =>
        /\ \A i \in DOMAIN sent' :
              sent'[i].kind = "replay" => sent'[i].to \subseteq DOMAIN clients'
        /\ \A ip \in DOMAIN clients' :
              IF ip \in DOMAIN clients
              THEN /\ ReplayedIn(sent', ip)
                      => /\ clock - clients[ip].last_replay >= 30000
                         /\ clients'[ip].last_replay = clock
                   /\ clients'[ip].last_replay # clients[ip].last_replay
                      => /\ clock - clients[ip].last_replay >= 30000
                         /\ clients'[ip].last_replay = clock
              ELSE /\ ~ReplayedIn(sent', ip)
                   /\ clients'[ip].last_replay = clock

(* C36: a replay goes to a client only in a tick whose clock is 30 s or    *)
(* more after the last_replay of that client, which is the clock of the    *)
(* tick that added the client until a replay sets it to the clock of its   *)
(* tick: two replays to a client are 30 s or more apart, and a client gets *)
(* no replay in the first 30 s after it was added.                         *)
C36_ReplayAtMostEvery30s == []ReplayStamped /\ [][ReplaySpaced]_vars

(* client 2, added after the start, has got its replay 30 s after it was   *)
(* added                                                                   *)
C36_Witness ==
    /\ EndOfTick
    /\ ReplayedIn(sent, 2)
    /\ clock \in {30500, 60000}
    /\ clients[2].last_replay = clock

(* client 2 has come into the app 29.5 s after it was added: no replay *)
C36_WitnessTooSoon ==
    /\ EndOfTick
    /\ 2 \in DOMAIN clients
    /\ clients[2].in_app
    /\ clock - clients[2].last_replay = 29500
    /\ inactive_buffer # <<>>
    /\ ~ReplayedIn(sent, 2)

----------------------------------------------------------------------------
(* SpecGnss: Pitot at 2 Hz with the u-blox receiver as its only sensor.    *)
(* The run of the sensor is followed one pass of its loop at a time; the   *)
(* serial port holds frames, parts of frames and noise, and its reads may  *)
(* fail.                                                                   *)

MaxTicksGnss == 2

(* UBX-NAV-SAT with no satellite, as to_wire frames it *)
SatFrame == to_wire(1, 53, <<0, 0, 0, 0, 1, 0, 0, 0>>)

(* UBX-NAV-PVT, 92 bytes of payload *)
PvtFrame == to_wire(1, 7, Blob(92, 0))

(* UBX-MON-VER, which the run does not expect *)
VerFrame == to_wire(10, 4, <<>>)

(* a NAV-SAT of version 2 and a NAV-PVT with no payload, checksums right *)
SatFrameV2 == to_wire(1, 53, <<0, 0, 0, 0, 2, 0, 0, 0>>)
PvtFrameEmpty == to_wire(1, 7, <<>>)

(* a NAV-SAT whose last checksum byte is wrong *)
SatFrameCorrupt ==
    [SatFrame EXCEPT ![Len(SatFrame)] = (@ + 1) % 256]

(* a header that announces 2000 bytes of payload, then zeros: more than    *)
(* the buffer holds                                                        *)
FrameOversized == <<181, 98, 1, 7, 208, 7>> \o Blob(BUFFER_SIZE, 0)

PortsGnss ==
    {SerialIdle,
     SerialPort(SatFrame, <<>>, "none"),
     SerialPort(PvtFrame, <<SatFrame>>, "none"),
     SerialPort(SatFrame \o VerFrame \o SatFrame, <<>>, "none"),
     SerialPort(SubSeq(SatFrame, 1, 7),
                <<SubSeq(SatFrame, 8, Len(SatFrame))>>, "none"),
     SerialPort(SatFrameCorrupt, <<SatFrame>>, "none"),
     SerialPort(<<0, 0, 0>>, <<<<0>> \o SatFrame>>, "none"),
     SerialPort(FrameOversized, <<>>, "none"),
     SerialPort(SatFrame, <<>>, "once"),
     SerialPort(SatFrame, <<>>, "stuck"),
     SerialPort(SatFrameV2, <<>>, "none"),
     SerialPort(PvtFrameEmpty, <<>>, "none")}

InitGnss ==
    \E port \in PortsGnss :
        PitotAfter(2, <<>>, {}, FALSE, FALSE, <<"GNSS">>, "handle", <<>>, port)

(* the receiver has sent its next bytes *)
SerialReceives ==
    /\ pc = "handle"
    /\ serial.later # <<>>
    /\ serial' = [serial EXCEPT !.wire = @ \o Head(serial.later),
                                !.later = Tail(@)]
    /\ UNCHANGED <<pc, ticks, handleVars, freq, transports, arg, ret, ran,
                   sensors, comm, queueVars, trafficVars, gdl90Vars, udpVars,
                   ownshipVars, chanVars, twin, nfed, pushed, seen, tlog,
                   sent>>

(* the match of UBXCommunicator::next on the buffer c after the refill:    *)
(* Done moves start behind the packet, Error invalidates the buffer and    *)
(* returns, Incomplete invalidates it when it is full and goes round       *)
UbxNext(c) ==
    LET res == parse_ubx_message(c.live)
    IN CASE res.tag = "Done" ->
              [comm |-> [start |-> c.end - res.rem, end |-> c.end,
                         live |-> SubSeq(c.live, Len(c.live) - res.rem + 1,
                                         Len(c.live))],
               ret |-> "Ok", pkt |-> res]
         [] res.tag = "Error" ->
              [comm |-> [c EXCEPT !.start = c.end, !.live = <<>>],
               ret |-> "Err"]
         [] res.tag = "Incomplete" ->
              [comm |-> IF c.end - c.start = BUFFER_SIZE
                        THEN [c EXCEPT !.start = c.end, !.live = <<>>]
                        ELSE c,
               ret |-> "continue"]

(* the arm of the match of UbloxGNSSProvider::run for what next returned:  *)
(* where the loop goes, and what is pushed.  unwrap panics on a payload    *)
(* that does not parse.  fix_from_pvt is not followed: the item stands for *)
(* the GNSSData it makes of the payload.                                   *)
UbloxArm(n) ==
    CASE n.ret = "continue" -> [to |-> "loop", push |-> <<>>]
      [] n.ret = "Err" -> [to |-> "break", push |-> <<>>]
      [] n.ret = "Ok" /\ n.pkt.class = 1 /\ n.pkt.id = 7 ->
           IF PvtParses(n.pkt.payload)
           THEN [to |-> "loop",
                 push |-> <<[kind |-> "Pvt", payload |-> n.pkt.payload]>>]
           ELSE [to |-> "panic", push |-> <<>>]
      [] n.ret = "Ok" /\ n.pkt.class = 1 /\ n.pkt.id = 53 ->
           IF SatParses(n.pkt.payload)
           THEN [to |-> "loop",
                 push |-> <<[kind |-> "SatelliteInfo",
                             num_svs |-> n.pkt.payload[6]]>>]
           ELSE [to |-> "panic", push |-> <<>>]
      [] OTHER -> [to |-> "break", push |-> <<>>]

(* one pass of the loop of UbloxGNSSProvider::run, which is one pass of    *)
(* the loop of UBXCommunicator::next: refill, parse, match.  A read that   *)
(* times out ends the run; any other error of the read goes round.         *)
GnssStep ==
    /\ pc = "sensors"
    /\ sensors = <<"GNSS">>
    /\ \E c0 \in {Shifted(comm)} :
       \E r \in ReadOutcomes(serial, BUFFER_SIZE - c0.end) :
       \E n \in {UbxNext([c0 EXCEPT
                            !.end = @ + r.n,
                            !.live = @ \o SubSeq(serial.wire, 1, r.n)])} :
       \E arm \in {UbloxArm(n)} :
          /\ serial' = AfterRead(serial, BUFFER_SIZE - c0.end, r)
          /\ IF r.res = "TimedOut"
             THEN /\ comm' = c0
                  /\ pc' = NextStage(pc)
                  /\ UNCHANGED <<sensor_queue, pushed, nfed>>
             ELSE IF r.res = "Other"
             THEN /\ comm' = c0
                  /\ UNCHANGED <<pc, sensor_queue, pushed, nfed>>
             ELSE /\ comm' = n.comm
                  /\ pc' = CASE arm.to = "loop" -> pc
                             [] arm.to = "break" -> NextStage(pc)
                             [] arm.to = "panic" -> "panicked"
                  /\ sensor_queue' = sensor_queue \o arm.push
                  /\ pushed' = [pushed EXCEPT !.sensors = @ \o arm.push]
                  /\ nfed' = nfed + Len(arm.push)
    /\ UNCHANGED <<ticks, handleVars, freq, transports, arg, ret, ran,
                   sensors, report_queue, payload_queue, trafficVars,
                   gdl90Vars, udpVars, ownshipVars, chanVars, twin, seen,
                   tlog, sent>>

NextGnss ==
    \/ NewHandle({500}, {0}, MaxTicksGnss)
    \/ SerialReceives
    \/ GnssStep
    \/ RunProcessors
    \/ RunAnyProtocol({<<>>}, nfed)
    \/ RunTransports({Quiet})

SpecGnss == InitGnss /\ [][NextGnss]_vars

(* the pipeline thread is never held up from outside: a pass of the loop   *)
(* that can be made is made                                                *)
SpecGnssFair == SpecGnss /\ WF_vars(GnssStep)

(* C37, as stated: the run of every sensor returns, whatever the port      *)
(* holds and whatever its reads return (no data, a partial frame, a wrong  *)
(* checksum, a parse error, a timeout, another I/O error): every tick that *)
(* has reached the sensor stage reaches the processor stage, and the loop  *)
(* of the run of the GNSS receiver ends.                                   *)
C37_SensorStepReturns == (pc = "sensors") ~> (pc = "processors")

(* a tick has reached the processors with half a frame left in the buffer, *)
(* after a read that timed out                                             *)
C37_Witness ==
    /\ pc = "processors"
    /\ comm.live = SubSeq(SatFrame, 1, 7)
    /\ serial.wire = <<>>

(* the reads of the port fail every time with an error that is not         *)
(* TimedOut: the pass of the loop leaves the run where it was              *)
C37_Stuck ==
    /\ pc = "sensors"
    /\ serial.fault = "stuck"
    /\ comm = Shifted(comm)
    /\ ReadOutcomes(serial, BUFFER_SIZE - comm.end)
         = {[res |-> "Other", n |-> 0]}

(* the run has died in unwrap on a packet whose payload does not parse *)
C37_Panicked == pc = "panicked" /\ ticks = 1

(* C37, for ports whose reads do not fail for ever: the run of the GNSS    *)
(* receiver returns, or dies on a payload that does not parse.             *)
C37_StepReturnsUnlessStuck ==
    (pc = "sensors")
    ~> (pc \in {"processors", "panicked"} \/ serial.fault = "stuck")


(***************************************************************************)
(* SpecStamps: the stamps of the targets of the traffic map.  Position and *)
(* velocity reports of one aircraft heard over ADS-B and over TIS-B reach  *)
(* the traffic processor in ticks that are 0.5 s or 2.5 s apart, so that a *)
(* target is merged into, skipped by the lockout, or left alone.           *)
(***************************************************************************)
MaxTicksStamps == 3
MaxFedStamps == 2

StepsStamps == {500, 2500}

BatchesStamps ==
    {<<>>,
     <<TrafficItem(AdsbPosition(10597059))>>,
     <<TrafficItem(AdsbVelocity(10597059))>>,
     <<TrafficItem(TisbPosition(10597059))>>,
     <<TrafficItem(AdsbVelocity(10597059)),
       TrafficItem(TisbPosition(11259375))>>}

InitStamps == PitotNew(2, <<>>, {}, FALSE)

NextStamps ==
    \/ NewHandle(StepsStamps, {0}, MaxTicksStamps)
    \/ RunSensors(BatchesStamps, MaxFedStamps)
    \/ RunProcessors
    \/ RunProtocols
    \/ RunTransports({Quiet})

SpecStamps == InitStamps /\ [][NextStamps]_vars

(* the stamp of a stamped field that is present *)
StampOf(field) == Unwrap(field)[Len(Unwrap(field))]

(* the stamped fields of a target that are present *)
StampedFields(v) ==
    {f \in {"altitude", "heading", "speed", "vs", "lat_lon"} : IsSome(v[f])}

(* C38: at the end of every tick, for every target of the traffic map, the *)
(* stamp of each stamped field that is present (altitude, heading, speed,  *)
(* vs, lat_lon) is not later than last_seen of the target, and last_seen   *)
(* is not later than the monotonic clock of the tick.                      *)
C38_StampsWithinLastSeen ==
    EndOfTick =>
        \A icao \in DOMAIN situation :
            /\ \A f \in StampedFields(situation[icao]) :
                  StampOf(situation[icao][f]) <= situation[icao].last_seen
            /\ situation[icao].last_seen <= clock

(* at the end of a tick a target holds a position stamped in an earlier    *)
(* tick than the one it was last seen in, and another tick has passed in   *)
(* which it was not heard                                                  *)
C38_Witness ==
    /\ EndOfTick
    /\ \E icao \in DOMAIN situation :
          /\ IsSome(situation[icao].lat_lon)
          /\ IsSome(situation[icao].heading)
          /\ StampOf(situation[icao].lat_lon) < StampOf(situation[icao].heading)
          /\ StampOf(situation[icao].heading) = situation[icao].last_seen
          /\ situation[icao].last_seen < clock

(* at the end of a tick a target that a report locked out has just passed  *)
(* by keeps the stamps of the tick before                                  *)
C38_WitnessLockedOut ==
    /\ EndOfTick
    /\ \E i \in DOMAIN tlog :
          /\ tlog[i].skipped
          /\ tlog[i].t.addr[1] \in DOMAIN situation
          /\ situation[tlog[i].t.addr[1]].last_seen < clock
          /\ IsSome(situation[tlog[i].t.addr[1]].altitude)


(***************************************************************************)
(* SpecQueue: the queue of the UDP transport at 2 Hz or 3 Hz.  In the      *)
(* first LastFedQueue ticks the protocol pushes payloads that can be told  *)
(* apart, queueable ones of two sizes (two of the larger do not fit one    *)
(* datagram, three of the smaller do) and an immediate one; then it pushes *)
(* nothing more.  A tick with a queue that is not empty pops at least one  *)
(* payload, so MaxFedQueue ticks after the last push are enough to see the *)
(* queue run empty.                                                        *)
(***************************************************************************)
LastFedQueue == 2
MaxFedQueue == 4
MaxIngressQueue == 3

MaxTicksQueue == LastFedQueue + MaxFedQueue

SizesQueue == {440, 1000}

(* a queueable payload of n bytes that carries the mark k *)
Tagged(n, k) == [queueable |-> TRUE, payload |-> Blob(n, k)]

BatchesQueue ==
    IF ticks > LastFedQueue THEN {<<>>}
    ELSE {[i \in 1..k |-> Tagged(s, nfed + i)] :
             k \in 0..MaxIngressQueue, s \in SizesQueue}
         \cup {<<Tagged(440, nfed + 1), Immediate(600),
                 Tagged(1000, nfed + 3)>>}

InitQueue == \E f \in {2, 3} : PitotNew(f, <<"UDP">>, {1}, FALSE)

NextQueue ==
    \/ NewHandle({500}, {0}, MaxTicksQueue)
    \/ RunSensors({<<>>}, nfed)
    \/ RunProcessors
    \/ RunAnyProtocol(BatchesQueue, MaxFedQueue)
    \/ RunTransports({Quiet})

SpecQueue == InitQueue /\ [][NextQueue]_vars

(* the pipeline thread loops for ever: a stage that can run does run *)
SpecQueueFair == SpecQueue /\ WF_vars(NextQueue)

(* the queue once the payloads of the tick have been enqueued *)
Enqueued == queue \o QueueableOf(payload_queue)

(* the payloads of the tick that are not queueable *)
ImmediateOf(q) == SelectSeq(q, LAMBDA p : ~p.queueable)

(* the payloads of the items q *)
PayloadsOf(q) == [i \in 1..Len(q) |-> q[i].payload]

(* a run of the transport pops a prefix of the queue and leaves the rest   *)
(* in its order; the datagrams it broadcasts carry the immediate payloads  *)
(* of the tick and then the popped payloads, each once and whole, in the   *)
(* order of the queue                                                      *)
PopsInOrder ==
    (pc = "transports" /\ transports # <<>>) =>
        LET popped == Len(Enqueued) - Len(queue')
        IN /\ popped >= 0
           /\ queue' = SubSeq(Enqueued, popped + 1, Len(Enqueued))
           /\ ChunksOf(SelectSeq(sent', LAMBDA d : d.kind = "broadcast"))
                = PayloadsOf(ImmediateOf(payload_queue))
                  \o PayloadsOf(SubSeq(Enqueued, 1, popped))

(* the paced drain pops at least one payload of a queue that is not empty, *)
(* and never more than the queue holds                                     *)
DrainWithinQueue ==
    (pc = "transports" /\ transports # <<>>) =>
        /\ ToDrain(freq, Len(Enqueued)) <= Len(Enqueued)
        /\ Enqueued # <<>> =>
              /\ ToDrain(freq, Len(Enqueued)) >= 1
              /\ Len(queue') < Len(Enqueued)

(* C39: the queueable payloads leave the queue of the UDP transport in the *)
(* order they entered it, each exactly once, in exactly one broadcast      *)
(* datagram of the tick that pops it; every tick with a queue that is not  *)
(* empty pops at least one payload and never more than the queue holds;    *)
(* and once no queueable payload comes in any more, the queue runs empty.  *)
C39_QueueFifoAndDrains ==
    /\ [][PopsInOrder /\ DrainWithinQueue]_vars
    /\ (ticks > LastFedQueue) ~> (queue = <<>>)

(* a run has popped the payload an earlier tick left in the queue and,  *)
(* into the same datagram, the first of the two payloads of this tick, *)
(* which still fits; the second stays in the queue                     *)
C39_Witness ==
    /\ EndOfTick
    /\ Len(sent) = 1
    /\ sent[1].kind = "broadcast"
    /\ sent[1].data = <<Blob(1000, 2), Blob(440, 3)>>
    /\ PayloadsOf(queue) = <<Blob(440, 4)>>

(* the queue has run empty ticks after the last payload came in *)
C39_WitnessEmptied ==
    /\ EndOfTick
    /\ ticks = LastFedQueue + 2
    /\ queue = <<>>
    /\ nfed = MaxFedQueue
    /\ sent # <<>>


(***************************************************************************)
(* SpecAgree: the freshness test of the traffic processor and the          *)
(* staleness test of the GDL 90 encoder on the same target in the same     *)
(* tick.  Position, velocity and identity reports of one aircraft reach    *)
(* the traffic processor in ticks that are 0.5 s, 6 s or 7 s apart, so     *)
(* that stamps are just within and just beyond the 6 s of both tests.      *)
(***************************************************************************)
MaxTicksAgree == 4
MaxFedAgree == 2

StepsAgree == {500, 6000, 7000}

BatchesAgree ==
    {<<>>,
     <<TrafficItem(AdsbPosition(10597059))>>,
     <<TrafficItem(AdsbVelocity(10597059))>>,
     <<TrafficItem(AdsbIdent(10597059))>>}

InitAgree == \E f \in {1, 2} : PitotNew(f, <<>>, {}, FALSE)

NextAgree ==
    \/ NewHandle(StepsAgree, {0}, MaxTicksAgree)
    \/ RunSensors(BatchesAgree, MaxFedAgree)
    \/ RunProcessors
    \/ RunProtocols
    \/ RunTransports({Quiet})

SpecAgree == InitAgree /\ [][NextAgree]_vars

(* the fields generate_traffic puts to its staleness test that the         *)
(* freshness test looks at too, and those of them that pass it at clk      *)
Tested == {"lat_lon", "altitude", "heading", "speed"}

Passing(e, clk) ==
    {f \in Tested : IsSome(e[f]) /\ ~Stale(StampOf(e[f]), clk)}

(* the target with every stamp of a tested field moved beyond the 6 s *)
Outdated(e, clk) ==
    [f \in DOMAIN e |->
        IF f \in Tested /\ IsSome(e[f])
        THEN Some([Unwrap(e[f]) EXCEPT
                     ![Len(Unwrap(e[f]))] =
                         clk - 1000 * (GDL90_MAX_STALE_SECS + 1)])
        ELSE e[f]]

(* C40: for every Report::Traffic the traffic processor pushes, at least   *)
(* one of lat_lon, altitude, heading and speed of the target passes the    *)
(* staleness test of the encoder at the clock of the same tick; and the    *)
(* traffic message the protocol builds from the report in that tick is not *)
(* the one it would build with all four stale.                             *)
C40_FreshnessAgrees ==
    /\ \A r \in Range(TrafficReportsOf(pushed.processors)) :
          Passing(r.target, clock) # {}
    /\ \A r \in Range(TrafficReportsOf(seen.protocols)) :
          \E pav \in BOOLEAN :
             /\ generate_traffic(r.target, clock, pav)
                  \in Range(pushed.protocols)
             /\ generate_traffic(r.target, clock, pav)
                  # generate_traffic(Outdated(r.target, clock), clock, pav)

(* the protocol has built the message of a target whose position is 7 s    *)
(* old and fails both tests, and whose heading is 6 s old and passes both  *)
C40_Witness ==
    /\ pc = "transports"
    /\ \E r \in Range(TrafficReportsOf(seen.protocols)) :
          /\ Passing(r.target, clock) = {"heading", "speed"}
          /\ IsSome(r.target.lat_lon)
          /\ clock - StampOf(r.target.lat_lon) >= 7000
          /\ clock - StampOf(r.target.heading) >= 6000
          /\ generate_traffic(r.target, clock, pres_alt_valid)
               \in Range(pushed.protocols)

(* a target of the map that was heard in this tick fails the freshness     *)
(* test, and no report is pushed for it                                    *)
C40_WitnessNotFresh ==
    /\ pc = "protocols"
    /\ "report" \in ran
    /\ \E icao \in DOMAIN situation :
          /\ situation[icao].last_seen = clock
          /\ ~is_fresh(situation[icao], clock)
    /\ TrafficReportsOf(pushed.processors) = <<>>

============================================================================
